---------------------------- MODULE Spec2Model ----------------------------
(***************************************************************************)
(* A model of the instant-messaging gateway of bbadbeef/go-base (im/):     *)
(* the message, session and route tables (im/internal/repository), the     *)
(* per-node connection Hub (im/internal/core/hub.go), the RouteManager and *)
(* the IMServer pipelines (im/internal/core/route.go).                     *)
(*                                                                         *)
(* Every goroutine of the program is a task with a program counter; one    *)
(* action is one step of a task between two accesses to shared state (a    *)
(* SQL statement, a Hub operation under its lock).                         *)
(***************************************************************************)
EXTENDS Integers, Sequences, FiniteSets, TLC

(***************************************************************************)
(* Bounds of the model.                                                    *)
(***************************************************************************)
\* chat_msg frames are read while fewer than MaxChats messages were sent,
\* SendMessage is called while fewer than MaxSends were.
MaxChats == 2
MaxSends == 3
\* The chat_msg frames of the receipt scenario.
MaxReceiptChats == 1
\* Number of inbound delivered_receipt / read_receipt frames.
MaxReceipts == 2
\* Number of connections accepted by the upgrade handler, cluster-wide.
MaxConns == 2
\* Number of ForwardMessage calls a node receives.
MaxRpcs == 3
\* Number of Hub.SendToUser calls made on a Hub from outside a pipeline.
MaxCalls == 3
\* Largest value of the wall clock (milliseconds, abstract units).
MaxTime == 2
\* Largest value of the wall clock where time passes between the calls
\* (the route table and its caches).
MaxClock == 5
\* How far the clock of one node runs ahead of another's.
MaxSkew == 1
\* Number of Hub.SendToUsers calls.
MaxBroadcasts == 3
\* Number of ping frames a connection is answered.
MaxPings == 3
\* Number of Hub.GetOnlineUsers calls.
MaxScans == 1

(***************************************************************************)
(* Program constants.                                                      *)
(***************************************************************************)
\* model.MsgStatus*
MsgStatusSending == 1
MsgStatusSent == 2
MsgStatusDelivered == 3
MsgStatusRead == 4
MsgStatusFailed == 5
\* Capacity of Client.Send, make(chan []byte, 256), scaled down.
SendCap == 2
\* Capacity of Hub.broadcast, make(chan *BroadcastMessage, 256), scaled
\* down.
BroadcastCap == 2
\* The limit pushOfflineMessages passes to GetUndeliveredMessages (100),
\* scaled down.
DrainLimit == 2
\* The page size IMServer.GetMessages gives a request that names none.
DefaultLimit == 20
\* Config.HeartbeatInterval (15 s), Config.CacheTTL (30 s) and the window of
\* GetActiveServers (60 s), scaled down by 15.
HeartbeatInterval == 1
CacheTTL == 2
ServerTimeout == 4

Users == {1, 2}
Nodes == {"s1", "s2"}
MsgIds == {"m1", "m2", "m3"}
Contents == {"hi", "yo"}
\* The empty msg_id of a frame that carries none; no Client; no route.
\* Group ids; zero is no group.
Groups == {1}
NoGroup == 0

NoId == ""
NoClient == 0
NoNode == ""
NoAddr == ""
\* Config.GRPCAddr of a node.
GRPCAddr(n) == IF n = "s1" THEN "s1:9090" ELSE "s2:9090"
\* No row in im_user_routes, no row in im_servers, no RouteCache entry.
\* The tokens of the upgrade requests: none, one the authenticator
\* refuses though it names user 1, and the tokens of the two users.
Tokens == {"", "expired1", "token1", "token2"}

\* Config.AuthFunc, the authenticator of the host program.
AuthFunc(token) ==
    CASE token = "token1" -> [userID |-> 1, err |-> FALSE]
      [] token = "token2" -> [userID |-> 2, err |-> FALSE]
      [] token = "expired1" -> [userID |-> 1, err |-> TRUE]
      [] OTHER -> [userID |-> 0, err |-> TRUE]

\* http.StatusUnauthorized, http.StatusSwitchingProtocols
StatusUnauthorized == 401
StatusSwitchingProtocols == 101

NoUpgrade == [node |-> NoNode, token |-> "", status |-> 0, call |-> 0]

NoRoute == [server_id |-> NoNode, last_heartbeat |-> 0]
NoServer == [grpc_addr |-> NoAddr, last_heartbeat |-> 0]
NoCache == [GatewayID |-> NoNode, CacheTime |-> 0]
\* No payload.
NoFrame ==
    [type |-> "", msg_id |-> NoId, status |-> 0, from_user_id |-> 0, time |-> 0]
\* Hub.Run blocked in `range h.broadcast`: no submission in hand.
NoSubmission == [pc |-> "recv", UserIDs |-> <<>>, Data |-> NoFrame, i |-> 0]

VARIABLES
    messages,       \* im_messages: rows in insertion (autoincrement id) order
    sessions,       \* im_sessions: (user_id, target_id) -> row
    userRoutes,     \* im_user_routes: user_id -> row, or NoRoute
    servers,        \* im_servers: server_id -> row, or NoServer
    routeCache,     \* RouteManager.userRoutes of each node
    gatewayAddrs,   \* RouteManager.gatewayAddrs of each node
    lookup,         \* what the last RouteManager.GetUserRoute call returned
    hub,            \* Hub.clients of each node: user_id -> Client, or NoClient
    clients,        \* every Client ever created, by creation order
    tasks,          \* the goroutines: readers, offline drains, service calls
    onMessageCalls, \* msg_id -> number of on-message handler invocations
    crashed,        \* the nodes whose process ended in a panic
    now,            \* the time, as the clock of the first node shows it
    nChats,         \* chat_msg frames and SendMessage calls so far
    nReceipts,      \* receipt frames so far
    onUserOnlineCalls,  \* user_id -> on-user-online handler invocations
    onUserOfflineCalls, \* user_id -> on-user-offline handler invocations
    upgrade,        \* the last request WebSocketHandler answered with 401
    stopped,        \* the nodes whose Stop has returned
    broadcast,      \* Hub.broadcast of each node: the submissions waiting
    run,            \* Hub.Run of each node: the submission in hand
    nBroadcasts,    \* Hub.SendToUsers calls so far
    peerClients     \* IMServer.peerClients of each node: the keys present

vars == <<messages, sessions, userRoutes, servers, routeCache, gatewayAddrs,
          lookup, hub, clients, tasks, onMessageCalls, crashed, now, nChats,
          nReceipts, onUserOnlineCalls, onUserOfflineCalls, upgrade, stopped,
          broadcast, run, nBroadcasts, peerClients>>

dbVars == <<messages, sessions, userRoutes>>

routeVars == <<servers, gatewayAddrs, lookup>>

hookVars == <<onUserOnlineCalls, onUserOfflineCalls>>

hubVars == <<broadcast, run, nBroadcasts>>

nodeVars == <<hookVars, upgrade, stopped, hubVars, peerClients>>

(***************************************************************************)
(* Helpers.                                                                *)
(***************************************************************************)
Range(s) == {s[i] : i \in DOMAIN s}

Min(a, b) == IF a < b THEN a ELSE b

\* The instants this step can take place at: time never goes back.
Clock == IF now < MaxTime THEN {now, now + 1} ELSE {now}

\* The clocks of the nodes are not synchronised: the second node's runs
\* ahead of the first's.
ClockOffset(n) == IF n = "s2" THEN MaxSkew ELSE 0

\* What time.Now() returns on node n at the instant t.
TimeAt(n, t) == t + ClockOffset(n)

(***************************************************************************)
(* MessageRepository (repository/message.go).                              *)
(***************************************************************************)
\* The row Save inserts for a model.Message.
DBMessage(msg) ==
    [msg_id |-> msg.msg_id, from_user_id |-> msg.from_user_id,
     to_user_id |-> msg.to_user_id, content |-> msg.content,
     group_id |-> msg.group_id, status |-> msg.status,
     server_time |-> msg.server_time, delivered_time |-> 0, read_time |-> 0]

HasMsgID(tbl, id) == \E i \in DOMAIN tbl : tbl[i].msg_id = id

\* A table without the unique index.
UniqueMsgID_NoIndex(tbl, row) == TRUE

\* uk_msg_id: the unique index on msg_id.
UniqueMsgID(tbl, row) == ~HasMsgID(tbl, row.msg_id)

\* Save: INSERT; the unique index refuses a second row with the msg_id.
\* dbOk = FALSE is any other store error.
Save(tbl, msg, dbOk) ==
    IF dbOk /\ UniqueMsgID(tbl, DBMessage(msg))
    THEN [ok |-> TRUE, tbl |-> Append(tbl, DBMessage(msg))]
    ELSE [ok |-> FALSE, tbl |-> tbl]

\* An update that writes the status alone.
StatusUpdates_StatusOnly(row, status, updateTime) ==
    [row EXCEPT !.status = status]

\* The columns UpdateStatus writes on a matching row.
StatusUpdates(row, status, updateTime) ==
    [row EXCEPT !.status = status,
                !.delivered_time =
                    IF status = MsgStatusDelivered THEN updateTime ELSE @,
                !.read_time =
                    IF status = MsgStatusRead THEN updateTime ELSE @]

\* UpdateStatus: UPDATE im_messages SET ... WHERE msg_id = ?
UpdateStatus(tbl, msgID, status, updateTime) ==
    [i \in DOMAIN tbl |->
        IF tbl[i].msg_id = msgID
        THEN StatusUpdates(tbl[i], status, updateTime)
        ELSE tbl[i]]

\* GetByMsgID: the rows with the msg_id (First: at most one is returned).
GetByMsgID(tbl, msgID) == {i \in DOMAIN tbl : tbl[i].msg_id = msgID}

\* WHERE to_user_id = ? AND status = ?
UndeliveredFilter(row, userID) ==
    row.to_user_id = userID /\ row.status = MsgStatusSent

\* ORDER BY server_time DESC.
OrderedByServerTime_Desc(tbl, s) ==
    \A i, j \in DOMAIN s : i < j => tbl[s[i]].server_time >= tbl[s[j]].server_time

\* ORDER BY server_time ASC: is the list of row ids s in that order?
OrderedByServerTime(tbl, s) ==
    \A i, j \in DOMAIN s : i < j => tbl[s[i]].server_time <= tbl[s[j]].server_time

\* GetUndeliveredMessages: the lists of row ids the query can return. Rows
\* with equal server_time come in an order SQL leaves open.
GetUndeliveredMessages(tbl, userID, limit) ==
    LET cand == {i \in DOMAIN tbl : UndeliveredFilter(tbl[i], userID)}
        k == Min(limit, Cardinality(cand))
    IN  {s \in [1..k -> cand] :
            /\ \A i, j \in 1..k : i # j => s[i] # s[j]
            /\ OrderedByServerTime(tbl, s)
            /\ \A x \in cand \ Range(s) :
                   \A i \in 1..k : tbl[s[i]].server_time <= tbl[x].server_time}

\* toModel: the model.Message of a row.
ToModel(row) ==
    [msg_id |-> row.msg_id, from_user_id |-> row.from_user_id,
     to_user_id |-> row.to_user_id, content |-> row.content,
     group_id |-> row.group_id, status |-> row.status,
     server_time |-> row.server_time,
     delivered_time |-> row.delivered_time, read_time |-> row.read_time]

\* WHERE (from_user_id = ? AND to_user_id = ?) OR (from_user_id = ? AND
\* to_user_id = ?), and server_time < ? when BeforeTime is given.
ConversationFilter(row, userID, targetID, beforeTime) ==
    /\ \/ row.from_user_id = userID /\ row.to_user_id = targetID
       \/ row.from_user_id = targetID /\ row.to_user_id = userID
    /\ beforeTime > 0 => row.server_time < beforeTime

\* ORDER BY server_time DESC: is the list of row ids s in that order?
NewestFirst(tbl, s) ==
    \A i, j \in DOMAIN s : i < j => tbl[s[i]].server_time >= tbl[s[j]].server_time

\* MessageRepository.GetMessages for a single chat: the pages the query can
\* return, as lists of model.Message.
GetMessages(tbl, userID, targetID, beforeTime, limit) ==
    LET cand == {i \in DOMAIN tbl :
                    ConversationFilter(tbl[i], userID, targetID, beforeTime)}
        k == Min(limit, Cardinality(cand))
        pages == {s \in [1..k -> cand] :
                     /\ \A i, j \in 1..k : i # j => s[i] # s[j]
                     /\ NewestFirst(tbl, s)
                     /\ \A x \in cand \ Range(s) :
                            \A i \in 1..k :
                                tbl[s[i]].server_time >= tbl[x].server_time}
    IN  {[i \in 1..k |-> ToModel(tbl[s[i]])] : s \in pages}

(***************************************************************************)
(* SessionRepository (repository/session.go).                              *)
(***************************************************************************)
\* The row INSERTed when no row has the key: dbSession carries no
\* UnreadCount, so the column takes its default.
NewSessionRow(session) ==
    [last_msg_content |-> session.last_msg_content,
     last_msg_time |-> session.last_msg_time,
     unread_count |-> 0]

\* The ON CONFLICT assignments.
ConflictSessionRow(old, session) ==
    [last_msg_content |-> session.last_msg_content,
     last_msg_time |-> session.last_msg_time,
     unread_count |-> old.unread_count + session.unread_count]

\* UpdateSession: INSERT ... ON DUPLICATE KEY UPDATE.
UpdateSession(tbl, session) ==
    LET key == <<session.user_id, session.target_id>>
    IN  IF key \in DOMAIN tbl
        THEN [tbl EXCEPT ![key] = ConflictSessionRow(tbl[key], session)]
        ELSE [k \in DOMAIN tbl \cup {key} |->
                 IF k = key THEN NewSessionRow(session) ELSE tbl[k]]


(***************************************************************************)
(* Wire frames (protocol/protocol.go).                                     *)
(***************************************************************************)
\* WSMessage{ack, WSAckMessage}
AckFrame(msgID, status, t) ==
    [type |-> "ack", msg_id |-> msgID, status |-> status, from_user_id |-> 0,
     time |-> t]

\* WSMessage{status_update, WSStatusUpdate}
StatusUpdateFrame(msgID, status, updateTime) ==
    [type |-> "status_update", msg_id |-> msgID, status |-> status,
     from_user_id |-> 0, time |-> updateTime]

\* WSMessage{pong}
PongFrame(t) ==
    [type |-> "pong", msg_id |-> NoId, status |-> 0, from_user_id |-> 0,
     time |-> t]

\* A payload the host program hands to Hub.SendToUsers.
Notice ==
    [type |-> "notice", msg_id |-> NoId, status |-> 0, from_user_id |-> 0,
     time |-> 0]

\* WSMessage{chat_msg, WSPushMessage}
ChatFrame(msg) ==
    [type |-> "chat_msg", msg_id |-> msg.msg_id, status |-> msg.status,
     from_user_id |-> msg.from_user_id, time |-> msg.server_time]

(***************************************************************************)
(* Hub (core/hub.go).                                                      *)
(***************************************************************************)
\* &Client{UserID, Conn, Send: make(chan []byte, 256)}; wire is what the
\* writer has written to Conn.
NewClient(userID, n) ==
    [UserID |-> userID, node |-> n, Send |-> <<>>, sendClosed |-> FALSE,
     connClosed |-> FALSE, wire |-> <<>>, closes |-> 0]

\* close(client.Send); client.Conn.Close(). closes counts the close calls
\* on the queue.
CloseClient(cl, c) ==
    [cl EXCEPT ![c].sendClosed = TRUE, ![c].connClosed = TRUE,
               ![c].closes = @ + 1]

\* Hub.Register: the Client table after a new Client replaced the old one.
HubRegisterClients(h, cl, n, userID) ==
    LET old == h[n][userID]
    IN  Append(IF old # NoClient THEN CloseClient(cl, old) ELSE cl,
               NewClient(userID, n))

\* An Unregister that closes the Client and leaves it in the map.
HubUnregister_KeepsClient(h, cl, n, userID) ==
    LET c == h[n][userID]
    IN  IF c # NoClient
        THEN [hub |-> h, clients |-> CloseClient(cl, c)]
        ELSE [hub |-> h, clients |-> cl]

\* Hub.Unregister: close and remove the Client registered for the user.
HubUnregister(h, cl, n, userID) ==
    LET c == h[n][userID]
    IN  IF c # NoClient
        THEN [hub |-> [h EXCEPT ![n][userID] = NoClient],
              clients |-> CloseClient(cl, c)]
        ELSE [hub |-> h, clients |-> cl]

\* select { case client.Send <- data: ...; default: ... }
ChanAccepts(client) == Len(client.Send) < SendCap

\* Hub.SendToUser: non-blocking enqueue on the user's Client. The pipelines
\* take the lookup and the send as one step, in which the Client the Hub
\* holds has an open queue; SendToUserLookup and SendToUserSelect follow a
\* call through its two steps.
SendToUser(h, cl, n, userID, data) ==
    LET c == h[n][userID]
    IN  IF c # NoClient /\ ChanAccepts(cl[c])
        THEN [ok |-> TRUE, clients |-> [cl EXCEPT ![c].Send = Append(@, data)]]
        ELSE [ok |-> FALSE, clients |-> cl]

\* A panic ends the node's process: its goroutines stop, its sockets close.
Panic(cl, n) ==
    [c \in DOMAIN cl |->
        IF cl[c].node = n THEN [cl[c] EXCEPT !.connClosed = TRUE] ELSE cl[c]]

\* The payload of the Hub.SendToUser calls followed step by step.
Payload == StatusUpdateFrame("m1", MsgStatusDelivered, 1)

\* Hub.HasClient / IMServer.IsUserOnline
HasClient(n, userID) == hub[n][userID] # NoClient

\* &BroadcastMessage{UserIDs, Data}
BroadcastMessage(userIDs, data) == [UserIDs |-> userIDs, Data |-> data]

\* A Hub.GetOnlineUsers call on node n is inside its loop over h.clients,
\* under the read lock.
Iterating(n) ==
    \E k \in DOMAIN tasks :
        /\ tasks[k].kind = "online"
        /\ tasks[k].node = n
        /\ tasks[k].pc = "iterate"

\* h.mutex of node n is read-locked from one step to the next: by Hub.Run
\* while it works through a submission, by a GetOnlineUsers call while it
\* iterates. Lock() waits until neither holds it.
RLocked(n) == run[n].pc = "loop" \/ Iterating(n)

\* An eviction that closes the queue and leaves the Client in the map.
Evict_KeepsClient(h, cl, n, userID) ==
    [hub |-> h,
     clients |-> [cl EXCEPT ![h[n][userID]].sendClosed = TRUE,
                            ![h[n][userID]].closes = @ + 1]]

\* Hub.Run, the default branch of the select: close(client.Send);
\* delete(h.clients, userID). The connection is left to the writer, which
\* closes it when it finds the queue closed.
Evict(h, cl, n, userID) ==
    [hub |-> [h EXCEPT ![n][userID] = NoClient],
     clients |-> [cl EXCEPT ![h[n][userID]].sendClosed = TRUE,
                            ![h[n][userID]].closes = @ + 1]]

(***************************************************************************)
(* RouteRepository (repository/route.go).                                  *)
(***************************************************************************)
\* The columns RegisterUserRoute writes. updated_at, which gorm sets to the
\* same instant in every statement that sets last_heartbeat, is left out.
RouteRow(serverID, t) == [server_id |-> serverID, last_heartbeat |-> t]

\* The clientFoundRows flag of the MySQL connection the host program hands
\* to the server: RowsAffected of an UPDATE counts the rows matched when it
\* is set, the rows changed when it is not (the driver's default).
ClientFoundRows == BOOLEAN

\* result.RowsAffected of UPDATE ... WHERE user_id = ? on the row `old`.
RowsAffected(old, new, foundRows) ==
    IF old = NoRoute THEN 0
    ELSE IF foundRows \/ old # new THEN 1
    ELSE 0

\* RegisterUserRoute: UPDATE, and INSERT when the UPDATE affected no row;
\* the INSERT fails on the primary key when the row exists.
RegisterUserRoute(tbl, userID, serverID, t, foundRows) ==
    LET new == RouteRow(serverID, t)
    IN  IF RowsAffected(tbl[userID], new, foundRows) = 0 /\ tbl[userID] # NoRoute
        THEN [ok |-> FALSE, tbl |-> tbl]
        ELSE [ok |-> TRUE, tbl |-> [tbl EXCEPT ![userID] = new]]

\* UnregisterUserRoute: DELETE FROM im_user_routes WHERE user_id = ?
UnregisterUserRoute(tbl, userID) ==
    [tbl EXCEPT ![userID] = NoRoute]

\* RouteRepository.GetUserRoute: the route row, then the server row it
\* points to; either First() finding no row is an error.
RepoGetUserRoute(tbl, srv, userID) ==
    IF tbl[userID] = NoRoute \/ srv[tbl[userID].server_id] = NoServer
    THEN [ok |-> FALSE, ServerID |-> NoNode, GRPCAddr |-> NoAddr]
    ELSE [ok |-> TRUE, ServerID |-> tbl[userID].server_id,
          GRPCAddr |-> srv[tbl[userID].server_id].grpc_addr]

\* BatchUpdateHeartbeat: UPDATE ... SET last_heartbeat WHERE user_id IN ?
BatchUpdateHeartbeat(tbl, userIDs, t) ==
    [u \in DOMAIN tbl |->
        IF u \in userIDs /\ tbl[u] # NoRoute
        THEN [tbl[u] EXCEPT !.last_heartbeat = t]
        ELSE tbl[u]]

\* RegisterServer: the row of a node after its start.
RegisterServer(srv, serverID, t) ==
    [srv EXCEPT ![serverID] = [grpc_addr |-> GRPCAddr(serverID),
                               last_heartbeat |-> t]]

\* UnregisterServer: DELETE FROM im_servers WHERE server_id = ?
UnregisterServer(srv, serverID) == [srv EXCEPT ![serverID] = NoServer]

\* UpdateServerHeartbeat: UPDATE ... SET last_heartbeat WHERE server_id = ?
UpdateServerHeartbeat(srv, serverID, t) ==
    IF srv[serverID] = NoServer THEN srv
    ELSE [srv EXCEPT ![serverID].last_heartbeat = t]

\* The WHERE clause of GetActiveServers: last_heartbeat > now - 60.
ActiveServer(row, t) == row # NoServer /\ row.last_heartbeat > t - ServerTimeout

(***************************************************************************)
(* RouteManager (core/route.go) over RouteRepository.                      *)
(***************************************************************************)
\* RouteManager.Register on node n: the table write, and the cache entry
\* when the write succeeded.
Register(n, userID, gatewayID, foundRows) ==
    LET r == RegisterUserRoute(userRoutes, userID, gatewayID, TimeAt(n, now),
                               foundRows)
    IN  [ok |-> r.ok, tbl |-> r.tbl,
         cache |-> IF r.ok
                   THEN [routeCache EXCEPT ![n][userID] =
                            [GatewayID |-> gatewayID,
                             CacheTime |-> TimeAt(n, now)]]
                   ELSE routeCache]

\* An Unregister that leaves the node's cache entry in place.
Unregister_KeepsCache(n, userID) ==
    [tbl |-> UnregisterUserRoute(userRoutes, userID), cache |-> routeCache]

\* RouteManager.Unregister on node n.
Unregister(n, userID) ==
    [tbl |-> UnregisterUserRoute(userRoutes, userID),
     cache |-> [routeCache EXCEPT ![n][userID] = NoCache]]

\* A cache whose entries never expire.
Fresh_Forever(entry, t) == entry # NoCache

\* exists && time.Now().Unix()-route.CacheTime < cacheTTL
Fresh(entry, t) == entry # NoCache /\ t - entry.CacheTime < CacheTTL

\* RouteManager.GetUserRoute on node n: what it returns (gatewayID,
\* gatewayAddr, online), whether it read the table, and the caches it
\* leaves.
GetUserRoute(n, userID) ==
    LET route == routeCache[n][userID]
        userRoute == RepoGetUserRoute(userRoutes, servers, userID)
    IN  IF Fresh(route, TimeAt(n, now))
        THEN [gatewayID |-> route.GatewayID,
              gatewayAddr |-> gatewayAddrs[n][route.GatewayID],
              online |-> TRUE, read |-> FALSE,
              cache |-> routeCache, addrs |-> gatewayAddrs]
        ELSE IF ~userRoute.ok
        THEN [gatewayID |-> NoNode, gatewayAddr |-> NoAddr, online |-> FALSE,
              read |-> TRUE, cache |-> routeCache, addrs |-> gatewayAddrs]
        ELSE [gatewayID |-> userRoute.ServerID,
              gatewayAddr |-> userRoute.GRPCAddr,
              online |-> TRUE, read |-> TRUE,
              cache |-> [routeCache EXCEPT ![n][userID] =
                            [GatewayID |-> userRoute.ServerID,
                             CacheTime |-> TimeAt(n, now)]],
              addrs |-> [gatewayAddrs EXCEPT ![n][userRoute.ServerID] =
                            userRoute.GRPCAddr]]

\* No GetUserRoute call was made yet. The field call alternates from one
\* call to the next.
NoLookup ==
    [node |-> NoNode, user |-> 0, gatewayID |-> NoNode, gatewayAddr |-> NoAddr,
     online |-> FALSE, read |-> FALSE, call |-> 0]

(***************************************************************************)
(* Tasks.                                                                  *)
(***************************************************************************)
NoMsg ==
    [msg_id |-> NoId, from_user_id |-> 0, to_user_id |-> 0, content |-> "",
     group_id |-> NoGroup, status |-> 0, server_time |-> 0]

\* A goroutine: kind "reader" (handleClientMessages of a Client), "drain"
\* (pushOfflineMessages), "send" (a SendMessage call), "rpc" (a
\* ForwardMessage call, ret its response once returned) or "call" (a
\* Hub.SendToUser call, client the Client it found, ret its result). cur is the message
\* in hand, st/t the status and time of the update in hand, batch/i the
\* drain's list and position. The reader of a connection and its drain are
\* consecutive tasks; the drain is "idle" until onUserConnect starts it.
NewTask(kind, n, c, userID, pc) ==
    [kind |-> kind, node |-> n, client |-> c, user |-> userID, pc |-> pc,
     cur |-> NoMsg, st |-> 0, t |-> 0, batch |-> <<>>, i |-> 0,
     ret |-> "none", addr |-> NoAddr]

Alive(k) == k \in DOMAIN tasks /\ tasks[k].node \notin crashed

\* Where a task goes when the step in hand ends its pipeline: the reader
\* reads its next frame, the drain takes the next message of its list, a
\* service call returns, ForwardMessage returns its response.
Finished(task) ==
    CASE task.kind = "reader" ->
            [task EXCEPT !.pc = "read", !.cur = NoMsg, !.st = 0, !.t = 0]
      [] task.kind = "drain" /\ task.i < Len(task.batch) ->
            [task EXCEPT !.pc = "push", !.i = @ + 1,
                         !.cur = task.batch[task.i + 1], !.st = 0, !.t = 0]
      [] task.kind = "rpc" ->
            [task EXCEPT !.pc = "done", !.cur = NoMsg, !.st = 0, !.t = 0,
                         !.ret = "true"]
      [] OTHER -> [task EXCEPT !.pc = "done", !.cur = NoMsg, !.st = 0, !.t = 0]

\* A handler without the `return` after the failure ack.
AfterAck_NoReturn(task) == [task EXCEPT !.pc = "session"]

\* handleChatMessage after sendAck: `return` after the failure ack, on to
\* updateSession after the success ack.
AfterAck(task) ==
    IF task.pc = "ack" THEN [task EXCEPT !.pc = "session"] ELSE Finished(task)

\* A push whose result is not looked at.
AfterPush_Unchecked(task, delivered) ==
    [task EXCEPT !.pc = "update", !.st = MsgStatusDelivered]

\* A drain loop without the `break`: a refused message is skipped.
AfterPush_Continues(task, delivered) ==
    IF delivered
    THEN [task EXCEPT !.pc = "update", !.st = MsgStatusDelivered]
    ELSE Finished(task)

\* `if delivered {...} else {...}` of pushToLocalUser and of the drain loop
\* (whose else branch is `break`).
AfterPush(task, delivered) ==
    IF delivered
    THEN [task EXCEPT !.pc = "update", !.st = MsgStatusDelivered]
    ELSE IF task.kind = "drain"
    THEN [task EXCEPT !.pc = "stopped", !.cur = NoMsg]
    ELSE Finished(task)

(***************************************************************************)
(* Initial state: the nodes are started and registered, nobody is          *)
(* connected, the tables are empty.                                        *)
(***************************************************************************)
Init ==
    /\ messages = <<>>
    /\ sessions = <<>>
    /\ userRoutes = [u \in Users |-> NoRoute]
    /\ servers = [n \in Nodes |-> [grpc_addr |-> GRPCAddr(n),
                                   last_heartbeat |-> TimeAt(n, 1)]]
    /\ routeCache = [n \in Nodes |-> [u \in Users |-> NoCache]]
    /\ gatewayAddrs = [n \in Nodes |-> [m \in Nodes |-> NoAddr]]
    /\ lookup = NoLookup
    /\ hub = [n \in Nodes |-> [u \in Users |-> NoClient]]
    /\ clients = <<>>
    /\ tasks = <<>>
    /\ onMessageCalls = [m \in MsgIds |-> 0]
    /\ crashed = {}
    /\ now = 1
    /\ nChats = 0
    /\ nReceipts = 0
    /\ onUserOnlineCalls = [u \in Users |-> 0]
    /\ onUserOfflineCalls = [u \in Users |-> 0]
    /\ upgrade = NoUpgrade
    /\ stopped = {}
    /\ broadcast = [n \in Nodes |-> <<>>]
    /\ run = [n \in Nodes |-> NoSubmission]
    /\ nBroadcasts = 0
    /\ peerClients = [n \in Nodes |-> {}]

(***************************************************************************)
(* Connection acceptance and teardown.                                     *)
(***************************************************************************)
\* onUserConnect, step 1: hub.Register(userID, conn).
OnUserConnect(userID, n) ==
    /\ n \notin crashed
    /\ Len(clients) < MaxConns
    /\ ~RLocked(n)
    /\ clients' = HubRegisterClients(hub, clients, n, userID)
    /\ hub' = [hub EXCEPT ![n][userID] = Len(clients) + 1]
    /\ tasks' = tasks \o
           <<NewTask("reader", n, Len(clients) + 1, userID, "register"),
             NewTask("drain", n, NoClient, userID, "idle")>>
    /\ UNCHANGED <<hookVars, stopped, hubVars, peerClients, routeVars, dbVars, routeCache,
                   onMessageCalls, crashed, now, nChats, nReceipts>>

\* WebSocketHandler for a request whose token the authenticator maps to
\* userID, from upgrader.Upgrade on.
Connect(userID, n) ==
    /\ OnUserConnect(userID, n)
    /\ UNCHANGED upgrade

\* A handler that leaves the authenticator's verdict unread.
Unauthorized_MissingOnly(token) == token = ""

\* WebSocketHandler, steps 1 and 2: is the request refused?
Unauthorized(token) == token = "" \/ AuthFunc(token).err

\* WebSocketHandler for a request with any token: http.Error(401) and
\* return, or the upgrade and onUserConnect.
WebSocketHandler(n, token) ==
    /\ n \notin crashed
    /\ IF Unauthorized(token)
       THEN /\ upgrade' = [node |-> n, token |-> token,
                           status |-> StatusUnauthorized,
                           call |-> 1 - upgrade.call]
            /\ UNCHANGED <<hookVars, stopped, hubVars, peerClients, routeVars, dbVars, routeCache,
                           hub, clients, tasks, onMessageCalls, crashed, now,
                           nChats, nReceipts>>
       ELSE /\ OnUserConnect(AuthFunc(token).userID, n)
            /\ upgrade' = [node |-> n, token |-> token,
                           status |-> StatusSwitchingProtocols,
                           call |-> 1 - upgrade.call]

\* onUserConnect, steps 2-5: routeManager.Register, the on-user-online
\* handlers are started, then the drain and the reader goroutines start. ret keeps whether Register returned nil; the
\* handler does not look at it.
RegisterRoute(k) ==
    /\ Alive(k)
    /\ tasks[k].pc = "register"
    /\ \E foundRows \in ClientFoundRows :
          LET r == Register(tasks[k].node, tasks[k].user, tasks[k].node,
                            foundRows)
          IN  /\ userRoutes' = r.tbl
              /\ routeCache' = r.cache
              /\ tasks' = [tasks EXCEPT
                              ![k].pc = "read",
                              ![k].ret = IF r.ok THEN "true" ELSE "false",
                              ![k + 1].pc = "query"]
    /\ onUserOnlineCalls' =
           [onUserOnlineCalls EXCEPT ![tasks[k].user] = @ + 1]
    /\ UNCHANGED <<onUserOfflineCalls, upgrade, stopped, hubVars, peerClients, routeVars, messages,
                   sessions, hub, clients, onMessageCalls, crashed, now,
                   nChats, nReceipts>>

\* The peer closes the connection, or the network fails.
Drop(c) ==
    /\ c \in DOMAIN clients
    /\ ~clients[c].connClosed
    /\ clients' = [clients EXCEPT ![c].connClosed = TRUE]
    /\ UNCHANGED <<nodeVars, routeVars, dbVars, routeCache, hub, tasks, onMessageCalls, crashed,
                   now, nChats, nReceipts>>

\* handleClientMessages: ReadJSON fails, the loop breaks.
ReadError(k) ==
    /\ Alive(k)
    /\ tasks[k].pc = "read"
    /\ clients[tasks[k].client].connClosed
    /\ tasks' = [tasks EXCEPT ![k].pc = "disconnect"]
    /\ UNCHANGED <<nodeVars, routeVars, dbVars, routeCache, hub, clients, onMessageCalls, crashed,
                   now, nChats, nReceipts>>

\* onUserDisconnect, step 1: hub.Unregister(userID).
Disconnect(k) ==
    /\ Alive(k)
    /\ tasks[k].pc = "disconnect"
    /\ ~RLocked(tasks[k].node)
    /\ LET r == HubUnregister(hub, clients, tasks[k].node, tasks[k].user)
       IN  /\ hub' = r.hub
           /\ clients' = r.clients
    /\ tasks' = [tasks EXCEPT ![k].pc = "unroute"]
    /\ UNCHANGED <<nodeVars, routeVars, dbVars, routeCache, onMessageCalls, crashed, now, nChats,
                   nReceipts>>

\* onUserDisconnect, steps 2 and 3: routeManager.Unregister(userID), then
\* the on-user-offline handlers are started.
UnregisterRoute(k) ==
    /\ Alive(k)
    /\ tasks[k].pc = "unroute"
    /\ LET r == Unregister(tasks[k].node, tasks[k].user)
       IN  /\ userRoutes' = r.tbl
           /\ routeCache' = r.cache
    /\ tasks' = [tasks EXCEPT ![k].pc = "done"]
    /\ onUserOfflineCalls' =
           [onUserOfflineCalls EXCEPT ![tasks[k].user] = @ + 1]
    /\ UNCHANGED <<onUserOnlineCalls, upgrade, stopped, hubVars, peerClients, routeVars, messages,
                   sessions, hub, clients, onMessageCalls, crashed, now,
                   nChats, nReceipts>>

\* Client.writePump: one frame from Send to the connection.
WritePump(c) ==
    /\ c \in DOMAIN clients
    /\ clients[c].node \notin crashed
    /\ ~clients[c].connClosed
    /\ clients[c].Send # <<>>
    /\ clients' = [clients EXCEPT ![c].wire = Append(@, Head(clients[c].Send)),
                                  ![c].Send = Tail(@)]
    /\ UNCHANGED <<nodeVars, routeVars, dbVars, routeCache, hub, tasks, onMessageCalls, crashed,
                   now, nChats, nReceipts>>

\* Client.writePump: `range c.Send` ends on the closed queue once it is
\* empty, and the deferred c.Conn.Close() runs.
WritePumpExit(c) ==
    /\ c \in DOMAIN clients
    /\ clients[c].node \notin crashed
    /\ clients[c].sendClosed
    /\ clients[c].Send = <<>>
    /\ ~clients[c].connClosed
    /\ clients' = [clients EXCEPT ![c].connClosed = TRUE]
    /\ UNCHANGED <<nodeVars, routeVars, dbVars, routeCache, hub, tasks,
                   onMessageCalls, crashed, now, nChats, nReceipts>>

(***************************************************************************)
(* Hub.SendToUser, step by step.                                           *)
(***************************************************************************)
\* Hub.SendToUser(userID, data) on node n, the part under the read lock:
\* the Client is looked up; `return false` when there is none.
SendToUserLookup(n, userID) ==
    /\ n \notin crashed
    /\ Cardinality({k \in DOMAIN tasks : tasks[k].kind = "call"}) < MaxCalls
    /\ tasks' = Append(tasks,
           IF hub[n][userID] = NoClient
           THEN [NewTask("call", n, NoClient, userID, "done")
                    EXCEPT !.ret = "false"]
           ELSE NewTask("call", n, hub[n][userID], userID, "chansend"))
    /\ UNCHANGED <<nodeVars, routeVars, dbVars, routeCache, hub, clients,
                   onMessageCalls, crashed, now, nChats, nReceipts>>

\* Hub.SendToUser, the part after the lock is released: the select on
\* client.Send. A send on a closed channel panics, also inside a select
\* with a default case.
SendToUserSelect(k) ==
    /\ Alive(k)
    /\ tasks[k].kind = "call"
    /\ tasks[k].pc = "chansend"
    /\ LET c == tasks[k].client
       IN  IF clients[c].sendClosed
           THEN /\ crashed' = crashed \cup {tasks[k].node}
                /\ clients' = Panic(clients, tasks[k].node)
                /\ UNCHANGED tasks
           ELSE IF ChanAccepts(clients[c])
           THEN /\ clients' = [clients EXCEPT ![c].Send = Append(@, Payload)]
                /\ tasks' = [tasks EXCEPT ![k].pc = "done", ![k].ret = "true"]
                /\ UNCHANGED crashed
           ELSE /\ tasks' = [tasks EXCEPT ![k].pc = "done", ![k].ret = "false"]
                /\ UNCHANGED <<clients, crashed>>
    /\ UNCHANGED <<nodeVars, routeVars, dbVars, routeCache, hub, onMessageCalls, now,
                   nChats, nReceipts>>

(***************************************************************************)
(* The send pipeline.                                                      *)
(***************************************************************************)
\* util.GenerateMsgID: a msg_id no row carries. The ids are interchangeable,
\* so one of the unused ones stands for all of them.
GenerateMsgID ==
    LET unused == {id \in MsgIds : ~HasMsgID(messages, id)}
    IN  IF unused = {} THEN {} ELSE {CHOOSE id \in unused : TRUE}

\* The model.Message handleChatMessage builds: GroupID is left zero.
NewMessage(msgID, from, to, content, serverTime) ==
    [msg_id |-> msgID, from_user_id |-> from, to_user_id |-> to,
     content |-> content, group_id |-> NoGroup, status |-> MsgStatusSent,
     server_time |-> serverTime]

\* handleChatMessage up to messageRepo.Save, for a chat_msg frame
\* {msg_id, to_user_id, content}.
HandleChatMessage(k, frameID, to, content, dbOk) ==
    /\ Alive(k)
    /\ tasks[k].pc = "read"
    /\ ~clients[tasks[k].client].connClosed
    /\ nChats < MaxChats
    /\ \E msgID \in (IF frameID = NoId THEN GenerateMsgID ELSE {frameID}),
          serverTime \in Clock :
          LET msg == NewMessage(msgID, tasks[k].user, to, content,
                                TimeAt(tasks[k].node, serverTime))
              r == Save(messages, msg, dbOk)
          IN  /\ messages' = r.tbl
              /\ tasks' = [tasks EXCEPT
                              ![k].pc = IF r.ok THEN "ack" ELSE "ackfail",
                              ![k].cur = msg]
              /\ now' = serverTime
    /\ nChats' = nChats + 1
    /\ UNCHANGED <<nodeVars, routeVars, sessions, userRoutes, routeCache, hub, clients,
                   onMessageCalls, crashed, nReceipts>>

\* handleChatMessage: sendAck after Save. A failed Save ends the handler.
SendAck(k) ==
    /\ Alive(k)
    /\ tasks[k].pc \in {"ack", "ackfail"}
    /\ LET status == IF tasks[k].pc = "ack" THEN MsgStatusSent
                     ELSE MsgStatusFailed
           r == SendToUser(hub, clients, tasks[k].node, tasks[k].user,
                           AckFrame(tasks[k].cur.msg_id, status,
                                    TimeAt(tasks[k].node, now)))
       IN  clients' = r.clients
    /\ tasks' = [tasks EXCEPT ![k] = AfterAck(tasks[k])]
    /\ UNCHANGED <<nodeVars, routeVars, dbVars, routeCache, hub, onMessageCalls, crashed, now,
                   nChats, nReceipts>>

\* model.SendMessageRequest
SendMessageRequest(from, to, groupID, content) ==
    [FromUserID |-> from, ToUserID |-> to, GroupID |-> groupID,
     Content |-> content]

\* IMServer.SendMessage(ctx, req) up to messageRepo.Save: the fields of the
\* request are copied into the model.Message.
SendMessageReq(n, req, dbOk) ==
    /\ n \notin crashed
    /\ nChats < MaxSends
    /\ \E msgID \in GenerateMsgID, serverTime \in Clock :
          LET msg == [msg_id |-> msgID, from_user_id |-> req.FromUserID,
                      to_user_id |-> req.ToUserID, content |-> req.Content,
                      group_id |-> req.GroupID, status |-> MsgStatusSent,
                      server_time |-> TimeAt(n, serverTime)]
              r == Save(messages, msg, dbOk)
          IN  /\ messages' = r.tbl
              /\ tasks' = Append(tasks,
                     [NewTask("send", n, NoClient, req.FromUserID,
                              IF r.ok THEN "session" ELSE "done")
                         EXCEPT !.cur = msg])
              /\ now' = serverTime
    /\ nChats' = nChats + 1
    /\ UNCHANGED <<nodeVars, routeVars, sessions, userRoutes, routeCache, hub, clients,
                   onMessageCalls, crashed, nReceipts>>

\* IMServer.SendMessage for a single-chat request.
SendMessage(n, from, to, content, dbOk) ==
    SendMessageReq(n, SendMessageRequest(from, to, NoGroup, content), dbOk)

\* The two rows IMServer.updateSession upserts: the sender's, then the
\* recipient's with UnreadCount 1.
SenderSession(msg) ==
    [user_id |-> msg.from_user_id, target_id |-> msg.to_user_id,
     last_msg_content |-> msg.content, last_msg_time |-> msg.server_time,
     unread_count |-> 0]

RecipientSession(msg) ==
    [user_id |-> msg.to_user_id, target_id |-> msg.from_user_id,
     last_msg_content |-> msg.content, last_msg_time |-> msg.server_time,
     unread_count |-> 1]

\* updateSession(msg), then the on-message handlers are started.
UpdateSessions(k) ==
    /\ Alive(k)
    /\ tasks[k].pc = "session"
    /\ sessions' = UpdateSession(UpdateSession(sessions,
                                               SenderSession(tasks[k].cur)),
                                 RecipientSession(tasks[k].cur))
    /\ onMessageCalls' =
           IF tasks[k].kind = "reader"
           THEN [onMessageCalls EXCEPT ![tasks[k].cur.msg_id] = @ + 1]
           ELSE onMessageCalls
    /\ tasks' = [tasks EXCEPT ![k].pc = "route"]
    /\ UNCHANGED <<nodeVars, routeVars, messages, userRoutes, routeCache, hub, clients, crashed,
                   now, nChats, nReceipts>>

\* routeAndDeliver: the route lookup and the branch it takes.
RouteAndDeliver(k) ==
    /\ Alive(k)
    /\ tasks[k].pc = "route"
    /\ LET r == GetUserRoute(tasks[k].node, tasks[k].cur.to_user_id)
       IN  /\ routeCache' = r.cache
           /\ gatewayAddrs' = r.addrs
           /\ tasks' = [tasks EXCEPT
                  ![k] = IF ~r.online THEN Finished(tasks[k])
                         ELSE IF r.gatewayID = tasks[k].node
                         THEN [tasks[k] EXCEPT !.pc = "push"]
                         ELSE [tasks[k] EXCEPT !.pc = "forward",
                                               !.addr = r.gatewayAddr]]
    /\ UNCHANGED <<nodeVars, servers, lookup, dbVars, hub, clients, onMessageCalls, crashed, now, nChats,
                   nReceipts>>

\* The user a push of the task goes to: msg.ToUserID in pushToLocalUser,
\* the drain's userID in pushOfflineMessages.
PushTarget(task) ==
    IF task.kind = "drain" THEN task.user ELSE task.cur.to_user_id

\* pushToLocalUser / the loop body of pushOfflineMessages: hub.SendToUser of
\* the chat_msg frame, and the branch on delivered.
Push(k) ==
    /\ Alive(k)
    /\ tasks[k].pc = "push"
    /\ LET r == SendToUser(hub, clients, tasks[k].node, PushTarget(tasks[k]),
                           ChatFrame(tasks[k].cur))
       IN  /\ clients' = r.clients
           /\ tasks' = [tasks EXCEPT ![k] = AfterPush(tasks[k], r.ok)]
    /\ UNCHANGED <<nodeVars, routeVars, dbVars, routeCache, hub, onMessageCalls, crashed, now,
                   nChats, nReceipts>>

\* A delivery that does not write the status.
UpdateDelivered_NoWrite(k) ==
    /\ Alive(k)
    /\ tasks[k].pc = "update"
    /\ tasks' = [tasks EXCEPT ![k].pc = "notify",
                              ![k].t = TimeAt(tasks[k].node, now)]
    /\ UNCHANGED <<nodeVars, routeVars, dbVars, routeCache, hub, clients, onMessageCalls, crashed,
                   now, nChats, nReceipts>>

\* deliveredTime := time.Now(); messageRepo.UpdateStatus(msgID, delivered).
UpdateDelivered(k) ==
    /\ Alive(k)
    /\ tasks[k].pc = "update"
    /\ \E deliveredTime \in Clock :
          /\ messages' = UpdateStatus(messages, tasks[k].cur.msg_id,
                                      tasks[k].st,
                                      TimeAt(tasks[k].node, deliveredTime))
          /\ tasks' = [tasks EXCEPT
                          ![k].pc = "notify",
                          ![k].t = TimeAt(tasks[k].node, deliveredTime)]
          /\ now' = deliveredTime
    /\ UNCHANGED <<nodeVars, routeVars, sessions, userRoutes, routeCache, hub, clients,
                   onMessageCalls, crashed, nChats, nReceipts>>

\* notifyStatusUpdate(msg.FromUserID, ...): hub.SendToUser of status_update.
NotifyStatusUpdate(k) ==
    /\ Alive(k)
    /\ tasks[k].pc = "notify"
    /\ LET r == SendToUser(hub, clients, tasks[k].node,
                           tasks[k].cur.from_user_id,
                           StatusUpdateFrame(tasks[k].cur.msg_id, tasks[k].st,
                                             tasks[k].t))
       IN  clients' = r.clients
    /\ tasks' = [tasks EXCEPT ![k] = Finished(tasks[k])]
    /\ UNCHANGED <<nodeVars, routeVars, dbVars, routeCache, hub, onMessageCalls, crashed, now,
                   nChats, nReceipts>>

\* client, exists := s.peerClients[key]
PoolFinds(n, key) == key \in peerClients[n]

\* A forward that marks the recipient offline when it fails.
ForwardToRemoteGateway_DropsRoute(k, dialOk) ==
    /\ Alive(k)
    /\ tasks[k].pc = "forward"
    /\ tasks' = [tasks EXCEPT ![k] = Finished(tasks[k])]
    /\ userRoutes' = [userRoutes EXCEPT ![tasks[k].cur.to_user_id] = NoRoute]
    /\ UNCHANGED <<nodeVars, routeVars, messages, sessions, routeCache, hub, clients,
                   onMessageCalls, crashed, now, nChats, nReceipts>>

\* forwardToRemoteGateway: the pool is looked up by the address; without
\* an entry grpc.Dial fails and the function returns (dialOk = FALSE), or
\* the client is stored under the address. Then the peer client
\* imgrpc.NewIMServerClient returned, nil, is called.
ForwardToRemoteGateway(k, dialOk) ==
    /\ Alive(k)
    /\ tasks[k].pc = "forward"
    /\ IF PoolFinds(tasks[k].node, tasks[k].addr) \/ dialOk
       THEN /\ peerClients' = [peerClients EXCEPT
                                  ![tasks[k].node] = @ \cup {tasks[k].addr}]
            /\ crashed' = crashed \cup {tasks[k].node}
            /\ clients' = Panic(clients, tasks[k].node)
            /\ UNCHANGED tasks
       ELSE /\ tasks' = [tasks EXCEPT
                            ![k] = [Finished(tasks[k]) EXCEPT !.addr = NoAddr]]
            /\ UNCHANGED <<crashed, clients, peerClients>>
    /\ UNCHANGED <<hookVars, upgrade, stopped, hubVars, routeVars, dbVars,
                   routeCache, hub, onMessageCalls, now, nChats, nReceipts>>

\* IMServer.ForwardMessage on node n, up to pushToLocalUser: a peer forwards
\* the stored message i.
ForwardMessage(n, i) ==
    /\ n \notin crashed
    /\ n \notin stopped
    /\ i \in DOMAIN messages
    /\ Cardinality({k \in DOMAIN tasks : tasks[k].kind = "rpc"}) < MaxRpcs
    /\ tasks' = Append(tasks,
           [NewTask("rpc", n, NoClient, messages[i].from_user_id, "push")
               EXCEPT !.cur = [ToModel(messages[i])
                                  EXCEPT !.status = MsgStatusSent]])
    /\ UNCHANGED <<nodeVars, routeVars, dbVars, routeCache, hub, clients,
                   onMessageCalls, crashed, now, nChats, nReceipts>>

(***************************************************************************)
(* Receipts.                                                               *)
(***************************************************************************)
\* handleDeliveredReceipt / handleReadReceipt -> MarkAsRead, up to
\* messageRepo.UpdateStatus, for a receipt frame {msg_id}.
HandleReceipt(k, msgID, status) ==
    /\ Alive(k)
    /\ tasks[k].pc = "read"
    /\ ~clients[tasks[k].client].connClosed
    /\ nReceipts < MaxReceipts
    /\ \E updateTime \in Clock :
          /\ messages' = UpdateStatus(messages, msgID, status,
                                      TimeAt(tasks[k].node, updateTime))
          /\ tasks' = [tasks EXCEPT ![k].pc = "lookup",
                                    ![k].cur = [NoMsg EXCEPT !.msg_id = msgID],
                                    ![k].st = status,
                                    ![k].t = TimeAt(tasks[k].node, updateTime)]
          /\ now' = updateTime
    /\ nReceipts' = nReceipts + 1
    /\ UNCHANGED <<nodeVars, routeVars, sessions, userRoutes, routeCache, hub, clients,
                   onMessageCalls, crashed, nChats>>

\* The rest of the receipt handlers: GetByMsgID, then notifyStatusUpdate to
\* the row's sender.
NotifySender(k) ==
    /\ Alive(k)
    /\ tasks[k].pc = "lookup"
    /\ LET rows == GetByMsgID(messages, tasks[k].cur.msg_id)
       IN  IF rows = {}
           THEN UNCHANGED clients
           ELSE \E i \in rows :
                   clients' = SendToUser(hub, clients, tasks[k].node,
                                  messages[i].from_user_id,
                                  StatusUpdateFrame(tasks[k].cur.msg_id,
                                                    tasks[k].st,
                                                    tasks[k].t)).clients
    /\ tasks' = [tasks EXCEPT ![k] = Finished(tasks[k])]
    /\ UNCHANGED <<nodeVars, routeVars, dbVars, routeCache, hub, onMessageCalls, crashed, now,
                   nChats, nReceipts>>

(***************************************************************************)
(* Offline drain.                                                          *)
(***************************************************************************)
\* pushOfflineMessages: the query, and the return on an empty list.
QueryUndelivered(k) ==
    /\ Alive(k)
    /\ tasks[k].pc = "query"
    /\ \E s \in GetUndeliveredMessages(messages, tasks[k].user, DrainLimit) :
          LET batch == [i \in DOMAIN s |-> ToModel(messages[s[i]])]
          IN  tasks' = [tasks EXCEPT
                 ![k] = IF Len(batch) = 0
                        THEN [tasks[k] EXCEPT !.pc = "done"]
                        ELSE [tasks[k] EXCEPT !.pc = "push", !.batch = batch,
                                              !.i = 1, !.cur = batch[1]]]
    /\ UNCHANGED <<nodeVars, routeVars, dbVars, routeCache, hub, clients, onMessageCalls, crashed,
                   now, nChats, nReceipts>>

(***************************************************************************)
(* The route table in time.                                                *)
(***************************************************************************)
\* Time passes.
Tick ==
    /\ now < MaxClock
    /\ now' = now + 1
    /\ UNCHANGED <<nodeVars, routeVars, dbVars, routeCache, hub, clients, tasks,
                   onMessageCalls, crashed, nChats, nReceipts>>

\* heartbeatWorker, one tick of its ticker: the node's heartbeat, then the
\* heartbeat of the users its Hub holds.
Heartbeat(n) ==
    /\ n \notin crashed
    /\ n \notin stopped
    /\ servers' = UpdateServerHeartbeat(servers, n, TimeAt(n, now))
    /\ userRoutes' = BatchUpdateHeartbeat(userRoutes,
                          {u \in Users : hub[n][u] # NoClient},
                          TimeAt(n, now))
    /\ UNCHANGED <<nodeVars, messages, sessions, routeCache, gatewayAddrs, lookup, hub,
                   clients, tasks, onMessageCalls, crashed, now, nChats,
                   nReceipts>>

\* The process of a node is killed: nothing of Stop runs.
Crash(n) ==
    /\ n \notin crashed
    /\ crashed' = crashed \cup {n}
    /\ clients' = Panic(clients, n)
    /\ UNCHANGED <<nodeVars, routeVars, dbVars, routeCache, hub, tasks, onMessageCalls,
                   now, nChats, nReceipts>>

\* IMServer.Stop on node n: unregisterNode, the context of the heartbeat
\* and peer-discovery workers is cancelled, the gRPC server stops.
Stop(n) ==
    /\ n \notin crashed
    /\ n \notin stopped
    /\ servers' = UnregisterServer(servers, n)
    /\ stopped' = stopped \cup {n}
    /\ UNCHANGED <<hookVars, upgrade, hubVars, peerClients, dbVars, routeCache, gatewayAddrs, lookup,
                   hub, clients, tasks, onMessageCalls, crashed, now, nChats,
                   nReceipts>>

\* A call of RouteManager.GetUserRoute(userID) on node n.
Lookup(n, userID) ==
    /\ n \notin crashed
    /\ LET r == GetUserRoute(n, userID)
       IN  /\ routeCache' = r.cache
           /\ gatewayAddrs' = r.addrs
           /\ lookup' = [node |-> n, user |-> userID,
                         gatewayID |-> r.gatewayID,
                         gatewayAddr |-> r.gatewayAddr,
                         online |-> r.online, read |-> r.read,
                         call |-> 1 - lookup.call]
    /\ UNCHANGED <<nodeVars, dbVars, servers, hub, clients, tasks, onMessageCalls,
                   crashed, now, nChats, nReceipts>>

(***************************************************************************)
(* The broadcast loop of the Hub, the readers of its map, ping frames.     *)
(***************************************************************************)
\* The user_ids lists of the submissions.
Submissions == {<<1>>, <<2>>, <<1, 2>>, <<2, 1>>}

\* Hub.SendToUsers(userIDs, data): the submission is put on the broadcast
\* channel; the call waits while the channel is full.
SendToUsers(n, userIDs, data) ==
    /\ n \notin crashed
    /\ nBroadcasts < MaxBroadcasts
    /\ Len(broadcast[n]) < BroadcastCap
    /\ broadcast' = [broadcast EXCEPT
                        ![n] = Append(@, BroadcastMessage(userIDs, data))]
    /\ nBroadcasts' = nBroadcasts + 1
    /\ UNCHANGED <<hookVars, upgrade, stopped, run, peerClients, routeVars,
                   dbVars, routeCache, hub, clients, tasks, onMessageCalls,
                   crashed, now, nChats, nReceipts>>

\* Hub.Run: `for msg := range h.broadcast`, then h.mutex.RLock().
RunReceive(n) ==
    /\ n \notin crashed
    /\ run[n].pc = "recv"
    /\ broadcast[n] # <<>>
    /\ run' = [run EXCEPT ![n] = [pc |-> "loop",
                                  UserIDs |-> Head(broadcast[n]).UserIDs,
                                  Data |-> Head(broadcast[n]).Data,
                                  i |-> 1]]
    /\ broadcast' = [broadcast EXCEPT ![n] = Tail(@)]
    /\ UNCHANGED <<hookVars, upgrade, stopped, nBroadcasts, peerClients,
                   routeVars, dbVars, routeCache, hub, clients, tasks,
                   onMessageCalls, crashed, now, nChats, nReceipts>>

\* Hub.Run, one pass of `for _, userID := range msg.UserIDs`: the select on
\* the Client's queue, or nothing for a user without a Client. The delete
\* of the default branch is made under the read lock: when a GetOnlineUsers
\* call is iterating the map at that moment, the runtime may end the
\* process (concurrent map iteration and map write) or not notice.
RunDeliver(n) ==
    /\ n \notin crashed
    /\ run[n].pc = "loop"
    /\ run[n].i <= Len(run[n].UserIDs)
    /\ LET userID == run[n].UserIDs[run[n].i]
           c == hub[n][userID]
       IN  IF c = NoClient
           THEN UNCHANGED <<hub, clients, crashed>>
           ELSE IF clients[c].sendClosed
           THEN /\ crashed' = crashed \cup {n}
                /\ clients' = Panic(clients, n)
                /\ UNCHANGED hub
           ELSE IF ChanAccepts(clients[c])
           THEN /\ clients' = [clients EXCEPT
                                  ![c].Send = Append(@, run[n].Data)]
                /\ UNCHANGED <<hub, crashed>>
           ELSE LET r == Evict(hub, clients, n, userID)
                IN  /\ hub' = r.hub
                    /\ \E fatal \in IF Iterating(n) THEN BOOLEAN ELSE {FALSE} :
                          IF fatal
                          THEN /\ crashed' = crashed \cup {n}
                               /\ clients' = Panic(r.clients, n)
                          ELSE /\ clients' = r.clients
                               /\ UNCHANGED crashed
    /\ run' = [run EXCEPT ![n].i = @ + 1]
    /\ UNCHANGED <<hookVars, upgrade, stopped, broadcast, nBroadcasts,
                   peerClients, routeVars, dbVars, routeCache, tasks,
                   onMessageCalls, now, nChats, nReceipts>>

\* Hub.Run: the loop over msg.UserIDs is through, h.mutex.RUnlock().
RunRelease(n) ==
    /\ n \notin crashed
    /\ run[n].pc = "loop"
    /\ run[n].i > Len(run[n].UserIDs)
    /\ run' = [run EXCEPT ![n] = NoSubmission]
    /\ UNCHANGED <<hookVars, upgrade, stopped, broadcast, nBroadcasts,
                   peerClients, routeVars, dbVars, routeCache, hub, clients,
                   tasks, onMessageCalls, crashed, now, nChats, nReceipts>>

\* Hub.GetOnlineUsers on node n: h.mutex.RLock(), the result slice is made.
\* batch is the slice, i the number of map slots visited.
GetOnlineUsers(n) ==
    /\ n \notin crashed
    /\ Cardinality({k \in DOMAIN tasks : tasks[k].kind = "online"}) < MaxScans
    /\ tasks' = Append(tasks, NewTask("online", n, NoClient, 0, "iterate"))
    /\ UNCHANGED <<nodeVars, routeVars, dbVars, routeCache, hub, clients,
                   onMessageCalls, crashed, now, nChats, nReceipts>>

\* Hub.GetOnlineUsers, one pass of `for userID := range h.clients`; after
\* the last one the deferred RUnlock runs and the slice is returned.
GetOnlineUsersNext(k) ==
    /\ Alive(k)
    /\ tasks[k].kind = "online"
    /\ tasks[k].pc = "iterate"
    /\ LET userID == tasks[k].i + 1
           users == IF hub[tasks[k].node][userID] # NoClient
                    THEN Append(tasks[k].batch, userID)
                    ELSE tasks[k].batch
       IN  tasks' = [tasks EXCEPT
                        ![k].batch = users,
                        ![k].i = userID,
                        ![k].pc = IF userID = Cardinality(Users)
                                  THEN "done" ELSE "iterate"]
    /\ UNCHANGED <<nodeVars, routeVars, dbVars, routeCache, hub, clients,
                   onMessageCalls, crashed, now, nChats, nReceipts>>

\* The pong frames connection c was sent.
Pongs(c) ==
    LET out == clients[c].wire \o clients[c].Send
    IN  {i \in DOMAIN out : out[i].type = "pong"}

\* handleClientMessages reads a ping frame; handlePing builds the pong.
HandlePing(k) ==
    /\ Alive(k)
    /\ tasks[k].kind = "reader"
    /\ tasks[k].pc = "read"
    /\ ~clients[tasks[k].client].connClosed
    /\ Cardinality(Pongs(tasks[k].client)) < MaxPings
    /\ tasks' = [tasks EXCEPT ![k].pc = "pong",
                              ![k].t = TimeAt(tasks[k].node, now)]
    /\ UNCHANGED <<nodeVars, routeVars, dbVars, routeCache, hub, clients,
                   onMessageCalls, crashed, now, nChats, nReceipts>>

\* handlePing: `client.Send <- data` on the reader's own Client. The send
\* waits while the queue is full; on a closed queue it panics.
SendPong(k) ==
    /\ Alive(k)
    /\ tasks[k].kind = "reader"
    /\ tasks[k].pc = "pong"
    /\ LET c == tasks[k].client
       IN  IF clients[c].sendClosed
           THEN /\ crashed' = crashed \cup {tasks[k].node}
                /\ clients' = Panic(clients, tasks[k].node)
                /\ UNCHANGED tasks
           ELSE /\ ChanAccepts(clients[c])
                /\ clients' = [clients EXCEPT
                                  ![c].Send = Append(@, PongFrame(tasks[k].t))]
                /\ tasks' = [tasks EXCEPT ![k] = Finished(tasks[k])]
                /\ UNCHANGED crashed
    /\ UNCHANGED <<nodeVars, routeVars, dbVars, routeCache, hub,
                   onMessageCalls, now, nChats, nReceipts>>

\* discoverPeers, one tick of its ticker: GetActiveServers, and for every
\* other server without an entry under its ServerID a dial of its GRPCAddr
\* and an entry stored under the ServerID.
DiscoverPeers(n) ==
    /\ n \notin crashed
    /\ n \notin stopped
    /\ \E dialed \in SUBSET {p \in Nodes \ {n} :
                               ActiveServer(servers[p], TimeAt(n, now))} :
          peerClients' = [peerClients EXCEPT ![n] = @ \cup dialed]
    /\ UNCHANGED <<hookVars, upgrade, stopped, hubVars, routeVars, dbVars,
                   routeCache, hub, clients, tasks, onMessageCalls, crashed,
                   now, nChats, nReceipts>>

(***************************************************************************)
(* Specifications. Spec is the whole system; the others are the parts of   *)
(* it (a set of nodes, of frames, of operations) that a property is        *)
(* checked on.                                                             *)
(***************************************************************************)
Next ==
    \/ \E u \in Users, n \in Nodes : Connect(u, n)
    \/ \E c \in DOMAIN clients : Drop(c)
    \/ \E c \in DOMAIN clients : WritePump(c)
    \/ \E c \in DOMAIN clients : WritePumpExit(c)
    \/ \E k \in DOMAIN tasks, id \in MsgIds \cup {NoId}, to \in Users,
          content \in Contents, dbOk \in BOOLEAN :
          HandleChatMessage(k, id, to, content, dbOk)
    \/ \E k \in DOMAIN tasks, id \in MsgIds,
          st \in {MsgStatusDelivered, MsgStatusRead} : HandleReceipt(k, id, st)
    \/ \E n \in Nodes, from \in Users, to \in Users, content \in Contents,
          dbOk \in BOOLEAN : SendMessage(n, from, to, content, dbOk)
    \/ \E k \in DOMAIN tasks, dialOk \in BOOLEAN :
          ForwardToRemoteGateway(k, dialOk)
    \/ \E k \in DOMAIN tasks : RegisterRoute(k)
    \/ \E k \in DOMAIN tasks : ReadError(k)
    \/ \E k \in DOMAIN tasks : Disconnect(k)
    \/ \E k \in DOMAIN tasks : UnregisterRoute(k)
    \/ \E k \in DOMAIN tasks : SendAck(k)
    \/ \E k \in DOMAIN tasks : UpdateSessions(k)
    \/ \E k \in DOMAIN tasks : RouteAndDeliver(k)
    \/ \E k \in DOMAIN tasks : Push(k)
    \/ \E k \in DOMAIN tasks : UpdateDelivered(k)
    \/ \E k \in DOMAIN tasks : NotifyStatusUpdate(k)
    \/ \E k \in DOMAIN tasks : NotifySender(k)
    \/ \E k \in DOMAIN tasks : QueryUndelivered(k)
    \/ \E n \in Nodes, i \in DOMAIN messages : ForwardMessage(n, i)
    \/ \E n \in Nodes, u \in Users : Lookup(n, u)
    \/ \E n \in Nodes, u \in Users : SendToUserLookup(n, u)
    \/ \E k \in DOMAIN tasks : SendToUserSelect(k)
    \/ \E n \in Nodes : Heartbeat(n)
    \/ \E n \in Nodes : Crash(n)
    \/ \E n \in Nodes : Stop(n)
    \/ \E n \in Nodes, token \in Tokens : WebSocketHandler(n, token)
    \/ \E n \in Nodes, userIDs \in Submissions : SendToUsers(n, userIDs, Notice)
    \/ \E n \in Nodes : RunReceive(n)
    \/ \E n \in Nodes : RunDeliver(n)
    \/ \E n \in Nodes : RunRelease(n)
    \/ \E n \in Nodes : GetOnlineUsers(n)
    \/ \E k \in DOMAIN tasks : GetOnlineUsersNext(k)
    \/ \E k \in DOMAIN tasks : HandlePing(k)
    \/ \E k \in DOMAIN tasks : SendPong(k)
    \/ \E n \in Nodes : DiscoverPeers(n)
    \/ Tick

Spec == Init /\ [][Next]_vars

\* One node; users connect, send one chat_msg with a client-minted msg_id
\* and send receipts for it.
NextReceipts ==
    \/ \E u \in Users : Connect(u, "s1")
    \/ \E k \in DOMAIN tasks : RegisterRoute(k)
    \/ \E k \in DOMAIN tasks : QueryUndelivered(k)
    \/ \E k \in DOMAIN tasks, to \in Users :
          nChats < MaxReceiptChats /\ HandleChatMessage(k, "m1", to, "hi", TRUE)
    \/ \E k \in DOMAIN tasks : SendAck(k)
    \/ \E k \in DOMAIN tasks : UpdateSessions(k)
    \/ \E k \in DOMAIN tasks : RouteAndDeliver(k)
    \/ \E k \in DOMAIN tasks : Push(k)
    \/ \E k \in DOMAIN tasks : UpdateDelivered(k)
    \/ \E k \in DOMAIN tasks : NotifyStatusUpdate(k)
    \/ \E k \in DOMAIN tasks, st \in {MsgStatusDelivered, MsgStatusRead} :
          HandleReceipt(k, "m1", st)
    \/ \E k \in DOMAIN tasks : NotifySender(k)

SpecReceipts == Init /\ [][NextReceipts]_vars

(***************************************************************************)
(* Properties.                                                             *)
(***************************************************************************)
\* C1: the persisted status of a message never moves backward along
\* sent(2) -> delivered(3) -> read(4), whatever updates are processed.
C1_StatusNeverMovesBackward ==
    [][\A i \in DOMAIN messages : messages'[i].status >= messages[i].status]_vars

\* Two nodes, a user on each; the clients send messages to each other,
\* re-using a msg_id, and a service caller sends on the first node. The drains the
\* connections start are not scheduled.
NextPersist ==
    \/ Connect(1, "s1")
    \/ Connect(2, "s2")
    \/ \E k \in DOMAIN tasks : RegisterRoute(k)
    \/ \E k \in DOMAIN tasks, id \in {"m1", NoId}, to \in Users,
          content \in Contents :
          to # tasks[k].user /\ HandleChatMessage(k, id, to, content, TRUE)
    \/ \E content \in Contents :
          nChats < MaxChats /\ SendMessage("s1", 2, 1, content, TRUE)
    \/ \E k \in DOMAIN tasks : SendAck(k)
    \/ \E k \in DOMAIN tasks : UpdateSessions(k)
    \/ \E k \in DOMAIN tasks : RouteAndDeliver(k)
    \/ \E k \in DOMAIN tasks, dialOk \in BOOLEAN :
          ForwardToRemoteGateway(k, dialOk)
    \/ \E k \in DOMAIN tasks : Push(k)
    \/ \E k \in DOMAIN tasks : UpdateDelivered(k)
    \/ \E k \in DOMAIN tasks : NotifyStatusUpdate(k)

SpecPersist == Init /\ [][NextPersist]_vars

\* The pcs of a task whose Save succeeded and that has the message in hand.
Saved == {"ack", "session", "route", "push", "forward", "update", "notify"}

SameMessage(row, msg) ==
    /\ row.msg_id = msg.msg_id
    /\ row.from_user_id = msg.from_user_id
    /\ row.to_user_id = msg.to_user_id
    /\ row.content = msg.content
    /\ row.server_time = msg.server_time

UniqueRows ==
    \A i, j \in DOMAIN messages :
        messages[i].msg_id = messages[j].msg_id => i = j

\* C2: the messages table holds exactly one row per accepted msg_id (no two
\* rows share a msg_id, and a message whose save succeeded has its row), and
\* a row keeps the from/to/content/server_time of the save that created it,
\* whatever is sent or updated afterwards.
C2_OneRowPerMsgID ==
    /\ [](UniqueRows /\
          \A k \in DOMAIN tasks :
              tasks[k].kind # "drain" /\ tasks[k].pc \in Saved =>
                  \E i \in DOMAIN messages : SameMessage(messages[i], tasks[k].cur))
    /\ [][\A i \in DOMAIN messages :
              i \in DOMAIN messages' /\ SameMessage(messages'[i], messages[i])]_vars

\* A frame re-using the msg_id of a row saved for another client, with
\* another content, has been refused.
C2_Witness ==
    \E k \in DOMAIN tasks, i \in DOMAIN messages :
        /\ tasks[k].pc = "ackfail"
        /\ messages[i].msg_id = tasks[k].cur.msg_id
        /\ messages[i].from_user_id # tasks[k].cur.from_user_id
        /\ messages[i].content # tasks[k].cur.content

\* One node; users connect and send chat_msg frames, with a repeated or a
\* server-minted msg_id, to a store that may fail; the writers drain the
\* queues.
NextChat ==
    \/ \E u \in Users : Connect(u, "s1")
    \/ \E k \in DOMAIN tasks : RegisterRoute(k)
    \/ \E k \in DOMAIN tasks : QueryUndelivered(k)
    \/ \E k \in DOMAIN tasks, id \in {"m1", NoId}, to \in Users,
          dbOk \in BOOLEAN :
          to # tasks[k].user /\ HandleChatMessage(k, id, to, "hi", dbOk)
    \/ \E k \in DOMAIN tasks : SendAck(k)
    \/ \E k \in DOMAIN tasks : UpdateSessions(k)
    \/ \E k \in DOMAIN tasks : RouteAndDeliver(k)
    \/ \E k \in DOMAIN tasks : Push(k)
    \/ \E k \in DOMAIN tasks : UpdateDelivered(k)
    \/ \E k \in DOMAIN tasks : NotifyStatusUpdate(k)

SpecChat == Init /\ [][NextChat]_vars

\* Everything a client's connection was handed so far: what its writer wrote
\* and what is still queued.
Outbound(c) == clients[c].wire \o clients[c].Send

\* The frames on any connection that are ack{status} for the msg_id.
Acks(msgID, status) ==
    UNION {{<<c, j>> : j \in {i \in DOMAIN Outbound(c) :
                                /\ Outbound(c)[i].type = "ack"
                                /\ Outbound(c)[i].msg_id = msgID
                                /\ Outbound(c)[i].status = status}} :
           c \in DOMAIN clients}

\* The step of reader k that follows a failed Save.
FailureStep(k) ==
    /\ tasks[k].pc = "ackfail"
    /\ tasks'[k] # tasks[k]

\* C3: when persisting a chat_msg fails (duplicate msg_id or a store error)
\* the table is left as it was and the handler's only further step hands
\* ack{failed} for the frame to the sender's queue and returns to reading:
\* no ack{sent}, no session upsert, no on-message hook, no route lookup, no
\* delivery. Of the frames carrying one msg_id at most one is acked sent.
C3_FailedPersistStops ==
    /\ [][\A k \in DOMAIN tasks :
            /\ tasks[k].pc = "read" /\ tasks'[k].pc = "ackfail" =>
                   messages' = messages
            /\ FailureStep(k) =>
                   /\ tasks'[k].pc = "read"
                   /\ messages' = messages
                   /\ sessions' = sessions
                   /\ onMessageCalls' = onMessageCalls
                   /\ routeCache' = routeCache
                   /\ LET c == hub[tasks[k].node][tasks[k].user]
                          ack == AckFrame(tasks[k].cur.msg_id, MsgStatusFailed, now)
                      IN  IF c # NoClient /\ Len(clients[c].Send) < SendCap
                          THEN clients' = [clients EXCEPT ![c].Send = Append(@, ack)]
                          ELSE clients' = clients]_vars
    /\ [](\A m \in MsgIds : Cardinality(Acks(m, MsgStatusSent)) <= 1)

\* One client sent a msg_id twice and holds ack{sent} followed by
\* ack{failed} for it; the table has the one row.
C3_Witness ==
    \E c \in DOMAIN clients, m \in MsgIds :
        /\ Len(Outbound(c)) = 2
        /\ Outbound(c)[1] = AckFrame(m, MsgStatusSent, Outbound(c)[1].time)
        /\ Outbound(c)[2] = AckFrame(m, MsgStatusFailed, Outbound(c)[2].time)
        /\ Cardinality(GetByMsgID(messages, m)) = 1
        /\ \A k \in DOMAIN tasks : tasks[k].client = c => tasks[k].pc = "read"

\* One node. A service caller sends messages from user 1 to user 2, one
\* call after the other, while user 2 has no connection; the users connect,
\* user 2 possibly twice, and the drains run.
NextOffline ==
    \/ \E u \in Users : Connect(u, "s1")
    \/ \E k \in DOMAIN tasks : RegisterRoute(k)
    \/ \E k \in DOMAIN tasks : QueryUndelivered(k)
    \/ /\ ~HasClient("s1", 2)
       /\ \A k \in DOMAIN tasks : tasks[k].kind = "send" => tasks[k].pc = "done"
       /\ SendMessage("s1", 1, 2, "hi", TRUE)
    \/ \E k \in DOMAIN tasks : UpdateSessions(k)
    \/ \E k \in DOMAIN tasks : RouteAndDeliver(k)
    \/ \E k \in DOMAIN tasks : Push(k)
    \/ \E k \in DOMAIN tasks : UpdateDelivered(k)
    \/ \E k \in DOMAIN tasks : NotifyStatusUpdate(k)

SpecOffline == Init /\ [][NextOffline]_vars

\* One node. The users connect, reconnect and drop; a service caller sends
\* messages from user 1 to user 2, one call after the other. The drains the
\* connections start are not scheduled.
NextLocal ==
    \/ \E u \in Users : Connect(u, "s1")
    \/ \E k \in DOMAIN tasks : RegisterRoute(k)
    \/ \E c \in DOMAIN clients : Drop(c)
    \/ \E k \in DOMAIN tasks : ReadError(k)
    \/ \E k \in DOMAIN tasks : Disconnect(k)
    \/ \E k \in DOMAIN tasks : UnregisterRoute(k)
    \/ /\ \A k \in DOMAIN tasks : tasks[k].kind = "send" => tasks[k].pc = "done"
       /\ SendMessage("s1", 1, 2, "hi", TRUE)
    \/ \E k \in DOMAIN tasks : UpdateSessions(k)
    \/ \E k \in DOMAIN tasks : RouteAndDeliver(k)
    \/ \E k \in DOMAIN tasks : Push(k)
    \/ \E k \in DOMAIN tasks : UpdateDelivered(k)
    \/ \E k \in DOMAIN tasks : NotifyStatusUpdate(k)

SpecLocal == Init /\ [][NextLocal]_vars

\* C4: on the connection of the sender of a message, a status_update for
\* the message is never enqueued before, or without, the ack{sent} for it.
C4_AckBeforeStatusUpdate ==
    \A c \in DOMAIN clients : \A j \in DOMAIN Outbound(c) :
        /\ Outbound(c)[j].type = "status_update"
        /\ \E i \in GetByMsgID(messages, Outbound(c)[j].msg_id) :
               messages[i].from_user_id = clients[c].UserID
        => \E i \in 1..(j - 1) :
               Outbound(c)[i] = AckFrame(Outbound(c)[j].msg_id, MsgStatusSent,
                                         Outbound(c)[i].time)

\* Readers k1 and k2 serve two connections of one user on one node, k2 the
\* later and the user's latest; k1 has run its disconnect handling to the
\* end and k2 has completed its connect handling and is reading.
HotReconnected(k1, k2) ==
    /\ tasks[k1].kind = "reader" /\ tasks[k2].kind = "reader"
    /\ tasks[k1].user = tasks[k2].user /\ tasks[k1].node = tasks[k2].node
    /\ tasks[k1].client < tasks[k2].client
    /\ \A c \in DOMAIN clients :
           clients[c].UserID = tasks[k2].user => c <= tasks[k2].client
    /\ tasks[k1].pc = "done"
    /\ tasks[k2].pc = "read"

\* C5: after a user's second connection on a node, once the reader of the
\* first connection has terminated and run its disconnect handling, the
\* second Client is still the one the Hub holds, its queue is open, the
\* route table maps the user to the node and the user is online.
C5_SecondClientSurvives ==
    \A k1, k2 \in DOMAIN tasks :
        HotReconnected(k1, k2) =>
            /\ hub[tasks[k2].node][tasks[k2].user] = tasks[k2].client
            /\ ~clients[tasks[k2].client].sendClosed
            /\ userRoutes[tasks[k2].user].server_id = tasks[k2].node
            /\ HasClient(tasks[k2].node, tasks[k2].user)

\* The unread_count of user's conversation with target, 0 for a missing row.
Unread(user, target) ==
    IF <<user, target>> \in DOMAIN sessions
    THEN sessions[<<user, target>>].unread_count
    ELSE 0

\* The stored messages from a to b whose handler has run updateSession.
SessionUpdated(a, b) ==
    {i \in DOMAIN messages :
        /\ messages[i].from_user_id = a
        /\ messages[i].to_user_id = b
        /\ ~\E k \in DOMAIN tasks :
               /\ tasks[k].pc \in {"ack", "session"}
               /\ tasks[k].cur.msg_id = messages[i].msg_id}

\* C6: each persisted message from A to B adds exactly one to B's
\* unread_count for the conversation with A (a missing row counting as 0)
\* and nothing to A's: with no mark-read, after k sends the count is k.
C6_UnreadCountsSends ==
    \A a, b \in Users :
        a # b => Unread(b, a) = Cardinality(SessionUpdated(a, b))

\* A step of pushOfflineMessages.
DrainStep(k) ==
    /\ k \in DOMAIN tasks
    /\ tasks[k].kind = "drain"
    /\ QueryUndelivered(k) \/ Push(k) \/ UpdateDelivered(k) \/ NotifyStatusUpdate(k)

\* SpecOffline with every drain that can take a step eventually scheduled.
SpecOfflineFair ==
    /\ SpecOffline
    /\ \A k \in 1..(2 * MaxConns + MaxSends) : WF_vars(DrainStep(k))

\* The rows a drain for the user would be given.
Pending(userID) ==
    {i \in DOMAIN messages : UndeliveredFilter(messages[i], userID)}

Drains(userID) ==
    {k \in DOMAIN tasks : tasks[k].kind = "drain" /\ tasks[k].user = userID}

\* The positions of drain k's list whose push was accepted.
Pushed(k) ==
    {j \in DOMAIN tasks[k].batch :
        \/ j < tasks[k].i
        \/ j = tasks[k].i /\ tasks[k].pc \in {"update", "notify", "done"}}

\* The positions whose message the drain has moved to delivered.
Advanced(k) ==
    {j \in DOMAIN tasks[k].batch :
        \/ j < tasks[k].i
        \/ j = tasks[k].i /\ tasks[k].pc \in {"notify", "done"}}

StatusUpdatesSent ==
    UNION {{<<c, j>> : j \in {i \in DOMAIN Outbound(c) :
                                Outbound(c)[i].type = "status_update"}} :
           c \in DOMAIN clients}

AllDrains == {k \in DOMAIN tasks : tasks[k].kind = "drain"}

\* The accepted drain pushes of the msg_id, over all drains.
DrainPushes(msgID) ==
    UNION {{<<k, j>> : j \in {i \in Pushed(k) : tasks[k].batch[i].msg_id = msgID}} :
           k \in AllDrains}

\* C8: no msg_id is enqueued by offline drains more than once, across the
\* reconnects of the user.
C8_DrainedAtMostOnce ==
    \A m \in MsgIds : Cardinality(DrainPushes(m)) <= 1

\* hub.SendToUser(userID, frame) on node n, as a relation between the Client
\* tables before and after, and whether it accepts.
Accepts(n, userID) ==
    /\ hub[n][userID] # NoClient
    /\ Len(clients[hub[n][userID]].Send) < SendCap

Enqueued(n, userID, frame) ==
    IF Accepts(n, userID)
    THEN clients' = [clients EXCEPT ![hub[n][userID]].Send = Append(@, frame)]
    ELSE clients' = clients

\* C9: the list a drain for user U works through holds messages to U that
\* were in status sent when queried, oldest first, and the drain enqueues
\* them on U's connection one by one in the order of the list.
C9_DrainOrder ==
    /\ [](\A k \in AllDrains :
             /\ \A j \in DOMAIN tasks[k].batch :
                    /\ tasks[k].batch[j].to_user_id = tasks[k].user
                    /\ tasks[k].batch[j].status = MsgStatusSent
             /\ \A j, l \in DOMAIN tasks[k].batch :
                    j < l => tasks[k].batch[j].server_time
                                 <= tasks[k].batch[l].server_time
             /\ tasks[k].pc \in {"push", "update", "notify"} =>
                    tasks[k].cur = tasks[k].batch[tasks[k].i])
    /\ [][\A k \in AllDrains :
             /\ tasks[k].pc = "query" /\ tasks'[k].pc # "query" =>
                    /\ \A j \in DOMAIN tasks'[k].batch :
                           \E i \in Pending(tasks[k].user) :
                               tasks'[k].batch[j] = ToModel(messages[i])
                    /\ tasks'[k].i <= 1
             /\ tasks[k].pc # "query" =>
                    /\ tasks'[k].batch = tasks[k].batch
                    /\ tasks'[k].i \in {tasks[k].i, tasks[k].i + 1}
             /\ tasks[k].pc = "push" /\ tasks'[k] # tasks[k] =>
                    Enqueued(tasks[k].node, tasks[k].user,
                             ChatFrame(tasks[k].batch[tasks[k].i]))
             /\ tasks[k].pc # "push" /\ tasks'[k] # tasks[k] =>
                    \A c \in DOMAIN clients :
                        clients[c].UserID = tasks[k].user /\ c \in DOMAIN clients'
                            => clients'[c] = clients[c]]_vars

\* A drain has enqueued its two messages, the older first.
C9_Witness ==
    \E k \in AllDrains :
        /\ tasks[k].pc = "done"
        /\ Len(tasks[k].batch) = 2
        /\ tasks[k].batch[1].server_time < tasks[k].batch[2].server_time
        /\ hub[tasks[k].node][tasks[k].user] # NoClient
        /\ Outbound(hub[tasks[k].node][tasks[k].user]) =
               <<ChatFrame(tasks[k].batch[1]), ChatFrame(tasks[k].batch[2])>>

\* The rows of the msg_id are delivered, with the delivered_time.
DeliveredAt(tbl, msgID, t) ==
    \A i \in GetByMsgID(tbl, msgID) :
        tbl[i].status = MsgStatusDelivered /\ tbl[i].delivered_time = t

NextRoaming ==
    \/ \E n \in Nodes : Connect(2, n)
    \/ \E k \in DOMAIN tasks : RegisterRoute(k)
    \/ \E c \in DOMAIN clients : Drop(c)
    \/ \E k \in DOMAIN tasks : ReadError(k)
    \/ \E k \in DOMAIN tasks : Disconnect(k)
    \/ \E k \in DOMAIN tasks : UnregisterRoute(k)
    \/ \E n \in Nodes : Lookup(n, 2)

SpecRoaming == Init /\ [][NextRoaming]_vars

NextCache ==
    \/ \E n \in Nodes : Connect(2, n)
    \/ \E k \in DOMAIN tasks : RegisterRoute(k)
    \/ \E c \in DOMAIN clients : Drop(c)
    \/ \E k \in DOMAIN tasks : ReadError(k)
    \/ \E k \in DOMAIN tasks : Disconnect(k)
    \/ \E k \in DOMAIN tasks : UnregisterRoute(k)
    \/ \E n \in Nodes : Lookup(n, 2)
    \/ Tick

SpecCache == Init /\ [][NextCache]_vars

NextRegistry ==
    \/ Connect(2, "s1")
    \/ \E k \in DOMAIN tasks : RegisterRoute(k)
    \/ Lookup("s2", 2)
    \/ Heartbeat("s1")
    \/ Crash("s1")
    \/ Tick

SpecRegistry == Init /\ [][NextRegistry]_vars

(***************************************************************************)
(* Remote forward.                                                         *)
(***************************************************************************)
\* Task k is in forwardToRemoteGateway and this step ends the call: the
\* function returns, or the process ends in it.
ForwardEnds(k) ==
    /\ tasks[k].pc = "forward"
    /\ tasks[k].node \notin crashed
    /\ tasks'[k].pc # "forward" \/ tasks[k].node \in crashed'

\* C11: with A connected to s1 and B connected to s2 with room in its queue,
\* once s1 has forwarded A's chat_msg the message is persisted with status
\* delivered and A's connection holds status_update{msg_id, 3}.
C11_CrossNodeDelivered ==
    [][\A k \in DOMAIN tasks :
          LET msg == tasks[k].cur
          IN  (/\ ForwardEnds(k)
               /\ tasks[k].kind = "reader"
               /\ tasks[k].node = "s1"
               /\ ~clients[tasks[k].client].connClosed
               /\ "s2" \notin crashed
               /\ Accepts("s2", msg.to_user_id))
              => /\ \E i \in DOMAIN messages' :
                       /\ messages'[i].msg_id = msg.msg_id
                       /\ messages'[i].status = MsgStatusDelivered
                 /\ \E j \in DOMAIN clients'[tasks[k].client].Send :
                       /\ clients'[tasks[k].client].Send[j].type = "status_update"
                       /\ clients'[tasks[k].client].Send[j].msg_id = msg.msg_id
                       /\ clients'[tasks[k].client].Send[j].status =
                              MsgStatusDelivered]_vars

\* C13: a remote forward that fails (the dial fails, or the call ends the
\* process) leaves the message in status sent, pushes no status_update,
\* leaves the route table as it is, and is not tried again: the task leaves
\* the forward for good, and a forward is only entered from the route lookup.
C13_FailedForwardLeavesSent ==
    [][\A k \in DOMAIN tasks :
          /\ ForwardEnds(k) =>
                /\ messages' = messages
                /\ \A i \in DOMAIN messages :
                       messages[i].msg_id = tasks[k].cur.msg_id
                           => messages'[i].status = MsgStatusSent
                /\ userRoutes' = userRoutes
                /\ \A c \in DOMAIN clients :
                       /\ clients'[c].Send = clients[c].Send
                       /\ clients'[c].wire = clients[c].wire
                /\ tasks[k].node \in crashed' \/ tasks'[k].pc \in {"read", "done"}
          /\ (tasks'[k].pc = "forward" /\ tasks[k].pc # "forward")
                => tasks[k].pc = "route"]_vars

\* User 1's only chat_msg, to user 2 on s2, went through the forward of s1,
\* whose dial failed: the reader is back at its read loop with the ack sent,
\* the row is in status sent, the route still points to s2.
C13_Witness ==
    /\ nChats = 1
    /\ Len(messages) = 1
    /\ messages[1].from_user_id = 1 /\ messages[1].to_user_id = 2
    /\ messages[1].status = MsgStatusSent
    /\ routeCache["s1"][2].GatewayID = "s2"
    /\ userRoutes[2].server_id = "s2"
    /\ crashed = {}
    /\ \E k \in DOMAIN tasks :
          /\ tasks[k].kind = "reader" /\ tasks[k].user = 1
          /\ tasks[k].pc = "read"
          /\ Len(Outbound(tasks[k].client)) = 1
          /\ Outbound(tasks[k].client)[1].type = "ack"
          /\ Outbound(tasks[k].client)[1].msg_id = messages[1].msg_id

(***************************************************************************)
(* The ForwardMessage handler. A service caller on s1 sends messages from  *)
(* user 1 to user 2, who connects to s2; the forward of s1 fails at the    *)
(* dial; the stored messages arrive at s2 as ForwardMessage calls, one     *)
(* call at a time.                                                         *)
(***************************************************************************)
NextRpc ==
    \/ Connect(2, "s2")
    \/ \E k \in DOMAIN tasks : RegisterRoute(k)
    \/ /\ \A k \in DOMAIN tasks : tasks[k].kind = "send" => tasks[k].pc = "done"
       /\ nChats < MaxChats
       /\ SendMessage("s1", 1, 2, "hi", TRUE)
    \/ \E k \in DOMAIN tasks : UpdateSessions(k)
    \/ \E k \in DOMAIN tasks : RouteAndDeliver(k)
    \/ \E k \in DOMAIN tasks : ForwardToRemoteGateway(k, FALSE)
    \/ /\ \A k \in DOMAIN tasks : tasks[k].kind = "rpc" => tasks[k].pc = "done"
       /\ \E i \in DOMAIN messages : ForwardMessage("s2", i)
    \/ \E k \in DOMAIN tasks : Push(k)
    \/ \E k \in DOMAIN tasks : UpdateDelivered(k)
    \/ \E k \in DOMAIN tasks : NotifyStatusUpdate(k)

SpecRpc == Init /\ [][NextRpc]_vars

\* The step in which the ForwardMessage call k returns.
Returns(k) ==
    /\ tasks[k].kind = "rpc"
    /\ tasks[k].pc # "done"
    /\ tasks'[k].pc = "done"

\* C12: ForwardMessage returns delivered = true when the Hub of the node
\* accepted the payload into the target user's queue, and delivered = false
\* when it did not (the user has no Client there, or its queue is full): a
\* call returns from the delivery branch with true, from a refused push with
\* false.
C12_DeliveredIffHubAccepted ==
    [][\A k \in DOMAIN tasks :
          Returns(k) =>
             /\ tasks[k].pc \in {"push", "notify"}
             /\ tasks[k].pc = "push" =>
                   /\ ~Accepts(tasks[k].node, tasks[k].cur.to_user_id)
                   /\ tasks'[k].ret = "false"
             /\ tasks[k].pc = "notify" => tasks'[k].ret = "true"]_vars

(***************************************************************************)
(* The Hub of s1 alone: user 2 connects, reconnects and disconnects while  *)
(* Hub.SendToUser is called for it.                                        *)
(***************************************************************************)
NextHub ==
    \/ Connect(2, "s1")
    \/ \E k \in DOMAIN tasks : RegisterRoute(k)
    \/ \E c \in DOMAIN clients : Drop(c)
    \/ \E k \in DOMAIN tasks : ReadError(k)
    \/ \E k \in DOMAIN tasks : Disconnect(k)
    \/ \E k \in DOMAIN tasks : UnregisterRoute(k)
    \/ SendToUserLookup("s1", 2)
    \/ \E k \in DOMAIN tasks : SendToUserSelect(k)

SpecHub == Init /\ [][NextHub]_vars

\* The step that ends the SendToUser call k: its select, whether the call
\* returns or the process ends in it.
SelectEnds(k) ==
    /\ tasks[k].kind = "call"
    /\ tasks[k].pc = "chansend"
    /\ tasks[k].node \notin crashed
    /\ tasks'[k].pc = "done" \/ tasks[k].node \in crashed'

\* C14: a Hub.SendToUser call always returns; a call that found a Client
\* either returns true, with the payload appended to that Client's queue and
\* nothing else changed, or, the queue being full, returns false with no
\* queue and no Hub entry changed; a call that found no Client returns false.
C14_SendToUserContract ==
    [][/\ \A k \in DOMAIN tasks :
             SelectEnds(k) =>
                LET c == tasks[k].client
                IN  /\ crashed' = crashed
                    /\ hub' = hub
                    /\ \/ /\ tasks'[k].ret = "true"
                          /\ Len(clients[c].Send) < SendCap
                          /\ clients' = [clients EXCEPT
                                            ![c].Send = Append(@, Payload)]
                       \/ /\ tasks'[k].ret = "false"
                          /\ Len(clients[c].Send) = SendCap
                          /\ clients' = clients
       /\ \A k \in DOMAIN tasks' \ DOMAIN tasks :
             (tasks'[k].kind = "call" /\ tasks'[k].pc = "done")
                => /\ hub[tasks'[k].node][tasks'[k].user] = NoClient
                   /\ tasks'[k].ret = "false"
                   /\ clients' = clients /\ hub' = hub]_vars

\* User userID has a live connection on node n: a registered Client with an
\* open socket whose reader is in its read loop.
ConnectedTo(userID, n) ==
    \E k \in DOMAIN tasks :
        /\ tasks[k].kind = "reader" /\ tasks[k].node = n
        /\ tasks[k].user = userID /\ tasks[k].pc = "read"
        /\ hub[n][userID] = tasks[k].client
        /\ ~clients[tasks[k].client].connClosed
        /\ n \notin crashed

\* Node n writes its own id into the route table in this step.
Registers(n) ==
    \E k \in DOMAIN tasks :
        /\ tasks[k].node = n /\ tasks[k].pc = "register"
        /\ tasks'[k].pc # "register"

\* C15: once the route table maps user 2 to s2, the latest node to register
\* it, and while the connection on s2 is alive, no step other than a new
\* register changes that row: not s1's disconnect handling for its old
\* connection either.
C15_LatestWriterKept ==
    [][(/\ userRoutes[2].server_id = "s2"
        /\ ConnectedTo(2, "s2")
        /\ ~Registers("s1"))
       => userRoutes'[2].server_id = "s2"]_vars

\* This step is a RouteManager.GetUserRoute call.
LookupStep == lookup'.call # lookup.call

\* C16: while user 2 is connected to node N and registered there for one
\* heartbeat interval or more, a lookup for it on any node returns N.
C16_LookupFollowsConnect ==
    [][\A N \in Nodes :
          (/\ LookupStep
           /\ ConnectedTo(2, N)
           /\ userRoutes[2].server_id = N
           /\ TimeAt(N, now) - userRoutes[2].last_heartbeat
                  >= HeartbeatInterval)
          => /\ lookup'.online
             /\ lookup'.gatewayID = N]_vars

\* The server row is missing or its heartbeat is ServerTimeout old or older
\* at the time t of the node that looks.
NotAlive(serverID, t) ==
    \/ servers[serverID] = NoServer
    \/ t - servers[serverID].last_heartbeat >= ServerTimeout

\* C17: a lookup that reads the tables and finds the user's route pointing
\* to a server that is not alive returns online = false and caches nothing.
C17_DeadServerIsOffline ==
    [][(/\ LookupStep
        /\ lookup'.read
        /\ userRoutes[lookup'.user] # NoRoute
        /\ NotAlive(userRoutes[lookup'.user].server_id,
                    TimeAt(lookup'.node, now)))
       => /\ ~lookup'.online
          /\ routeCache' = routeCache
          /\ gatewayAddrs' = gatewayAddrs]_vars

RegisterStep(k) ==
    /\ tasks[k].kind = "reader"
    /\ tasks[k].pc = "register"
    /\ tasks'[k].pc = "read"

\* C19: every register(U, N), the first and the repeated ones, succeeds and
\* leaves what a single register leaves: the row U -> N and the cache entry
\* U -> N on N.
C19_RegisterIdempotent ==
    [][\A k \in DOMAIN tasks :
          RegisterStep(k) =>
             /\ tasks'[k].ret = "true"
             /\ userRoutes'[tasks[k].user].server_id = tasks[k].node
             /\ routeCache'[tasks[k].node][tasks[k].user].GatewayID =
                    tasks[k].node]_vars

\* Reader k, on a read_receipt of its user, runs MarkAsRead(user, [msg_id])
\* and this step is its UpdateStatus.
MarkStep(k) ==
    /\ tasks[k].kind = "reader"
    /\ tasks[k].pc = "read"
    /\ tasks'[k].pc = "lookup"
    /\ tasks'[k].st = MsgStatusRead

C21_DeliveredTimeWrittenOnce ==
    [][\A i \in DOMAIN messages :
          messages[i].delivered_time # 0 =>
              messages'[i].delivered_time = messages[i].delivered_time]_vars

\* Two nodes. A service caller on s2 sends a message from user 1 to user 2;
\* user 2 connects to s1, whose clock is behind, and is served by the
\* drains of its connections and by a push for s2 (ForwardMessage on s1).
NextClocks ==
    \/ Connect(2, "s1")
    \/ \E k \in DOMAIN tasks : RegisterRoute(k)
    \/ \E k \in DOMAIN tasks : QueryUndelivered(k)
    \/ /\ \A k \in DOMAIN tasks : tasks[k].kind = "send" => tasks[k].pc = "done"
       /\ nChats < MaxReceiptChats
       /\ SendMessage("s2", 1, 2, "hi", TRUE)
    \/ \E k \in DOMAIN tasks : UpdateSessions(k)
    \/ \E k \in DOMAIN tasks : RouteAndDeliver(k)
    \/ \E k \in DOMAIN tasks : ForwardToRemoteGateway(k, FALSE)
    \/ /\ \A k \in DOMAIN tasks : tasks[k].kind # "rpc"
       /\ \E i \in DOMAIN messages : ForwardMessage("s1", i)
    \/ \E k \in DOMAIN tasks : Push(k)
    \/ \E k \in DOMAIN tasks : UpdateDelivered(k)
    \/ \E k \in DOMAIN tasks : NotifyStatusUpdate(k)

SpecClocks == Init /\ [][NextClocks]_vars

\* C22: the delivered_time of a persisted message that was delivered, by a
\* local push, by a forward handled on another node with its own clock, or
\* by a drain, is never below its server_time.
C22_DeliveredNotBeforeServerTime ==
    \A i \in DOMAIN messages :
        messages[i].delivered_time # 0 =>
            messages[i].delivered_time >= messages[i].server_time

(***************************************************************************)
(* Unread counts and mark-read.                                            *)
(***************************************************************************)
\* ClearUnread: UPDATE im_sessions SET unread_count = 0 WHERE user_id = ?
\* AND target_id = ?
ClearUnread(tbl, userID, targetID) ==
    IF <<userID, targetID>> \in DOMAIN tbl
    THEN [tbl EXCEPT ![<<userID, targetID>>].unread_count = 0]
    ELSE tbl

\* One node, both users connected. A service caller sends messages from
\* user 1 to user 2, one call after the other, and user 2 marks them as
\* read with read_receipt frames.
NextRead ==
    \/ \E u \in Users : Connect(u, "s1")
    \/ \E k \in DOMAIN tasks : RegisterRoute(k)
    \/ /\ \A k \in DOMAIN tasks : tasks[k].kind = "send" => tasks[k].pc = "done"
       /\ nChats < MaxChats
       /\ SendMessage("s1", 1, 2, "hi", TRUE)
    \/ \E k \in DOMAIN tasks : UpdateSessions(k)
    \/ \E k \in DOMAIN tasks : RouteAndDeliver(k)
    \/ \E k \in DOMAIN tasks : Push(k)
    \/ \E k \in DOMAIN tasks : UpdateDelivered(k)
    \/ \E k \in DOMAIN tasks : NotifyStatusUpdate(k)
    \/ \E k \in DOMAIN tasks, msgID \in MsgIds :
          /\ tasks[k].user = 2
          /\ \E i \in DOMAIN messages :
                messages[i].msg_id = msgID /\ messages[i].status # MsgStatusRead
          /\ HandleReceipt(k, msgID, MsgStatusRead)
    \/ \E k \in DOMAIN tasks : NotifySender(k)

SpecRead == Init /\ [][NextRead]_vars

\* The handler of a read mark returns.
MarkEnds(k) ==
    /\ tasks[k].kind = "reader"
    /\ tasks[k].pc = "lookup"
    /\ tasks[k].st = MsgStatusRead
    /\ tasks'[k].pc = "read"

\* Every stored message from a to b is read and its handler has updated
\* the sessions.
AllRead(a, b) ==
    /\ \A i \in DOMAIN messages :
          messages[i].from_user_id = a /\ messages[i].to_user_id = b =>
              messages[i].status = MsgStatusRead
    /\ \A k \in DOMAIN tasks :
          tasks[k].kind = "send" => tasks[k].pc \notin {"session"}

\* C23: after B has marked the messages of its conversation with A as read
\* (mark_as_read or read_receipt), B's session row for A has unread_count 0.
C23_MarkReadClearsUnread ==
    [][\A k \in DOMAIN tasks :
          MarkEnds(k) /\ AllRead(1, tasks[k].user) =>
              sessions' = ClearUnread(sessions', tasks[k].user, 1)]_vars

(***************************************************************************)
(* Connections: refusal, teardown, shutdown.                               *)
(***************************************************************************)
\* onUserDisconnect of reader k returns.
DisconnectEnds(k) ==
    /\ tasks[k].kind = "reader"
    /\ tasks[k].pc = "unroute"
    /\ tasks'[k].pc = "done"

\* The connection of reader k is the only one its user has on the node.
OnlyConnection(k) ==
    \A j \in DOMAIN tasks :
        (/\ j # k
         /\ tasks[j].kind = "reader"
         /\ tasks[j].user = tasks[k].user
         /\ tasks[j].node = tasks[k].node)
        => tasks[j].pc = "done"

NextAuth ==
    \/ \E n \in Nodes, token \in Tokens : WebSocketHandler(n, token)
    \/ \E k \in DOMAIN tasks : RegisterRoute(k)
    \/ \E k \in DOMAIN tasks : QueryUndelivered(k)
    \/ \E c \in DOMAIN clients : Drop(c)
    \/ \E k \in DOMAIN tasks : ReadError(k)
    \/ \E k \in DOMAIN tasks : Disconnect(k)
    \/ \E k \in DOMAIN tasks : UnregisterRoute(k)

SpecAuth == Init /\ [][NextAuth]_vars

\* C25: an upgrade request whose token is missing, or is refused by the
\* authenticator, is answered with 401 and creates nothing: no Client, no
\* route entry, no on-user-online invocation, no drain.
C25_RefusedUpgradeCreatesNothing ==
    [][(/\ upgrade' # upgrade
        /\ upgrade'.token = "" \/ AuthFunc(upgrade'.token).err)
       => /\ upgrade'.status = StatusUnauthorized
          /\ hub' = hub
          /\ clients' = clients
          /\ tasks' = tasks
          /\ userRoutes' = userRoutes
          /\ routeCache' = routeCache
          /\ onUserOnlineCalls' = onUserOnlineCalls]_vars

\* s2 has refused a request with the expired token of user 1 while user 2
\* is connected to s1 and user 1 has no Client, no route and no hook call.
C25_Witness ==
    /\ upgrade.status = StatusUnauthorized
    /\ upgrade.token = "expired1"
    /\ upgrade.node = "s2"
    /\ HasClient("s1", 2)
    /\ \A n \in Nodes : ~HasClient(n, 1)
    /\ \A c \in DOMAIN clients : clients[c].UserID = 2
    /\ userRoutes[1] = NoRoute
    /\ onUserOnlineCalls[1] = 0

\* Two nodes. The users connect to s1 and their connections fail; either
\* node is stopped; the nodes send heartbeats and s2 looks the users up.
NextShutdown ==
    \/ \E u \in Users : Connect(u, "s1")
    \/ \E k \in DOMAIN tasks : RegisterRoute(k)
    \/ \E c \in DOMAIN clients : Drop(c)
    \/ \E k \in DOMAIN tasks : ReadError(k)
    \/ \E k \in DOMAIN tasks : Disconnect(k)
    \/ \E k \in DOMAIN tasks : UnregisterRoute(k)
    \/ \E n \in Nodes : Stop(n)
    \/ \E n \in Nodes : Heartbeat(n)
    \/ \E u \in Users : Lookup("s2", u)

SpecShutdown == Init /\ [][NextShutdown]_vars

\* C26: after Stop has returned on a node, its row of the server registry
\* is removed, its Hub holds no Client and every connection of it is
\* closed, and no route entry names the node.
C26_StopClosesEverything ==
    \A n \in stopped :
        /\ servers[n] = NoServer
        /\ \A u \in Users : hub[n][u] = NoClient
        /\ \A c \in DOMAIN clients :
               clients[c].node = n =>
                   clients[c].sendClosed /\ clients[c].connClosed
        /\ \A u \in Users : userRoutes[u].server_id # n

(***************************************************************************)
(* Status notifications, message hooks, requests, drain back-pressure.     *)
(***************************************************************************)
\* Two nodes: user 1 is served by s1 and sends one message to user 2, who
\* is served by s2, receives it by the drain of a connection, and sends
\* delivered and read receipts for it.
NextNotify ==
    \/ Connect(1, "s1")
    \/ Connect(2, "s2")
    \/ \E k \in DOMAIN tasks : RegisterRoute(k)
    \/ \E k \in DOMAIN tasks : QueryUndelivered(k)
    \/ \E k \in DOMAIN tasks :
          /\ tasks[k].user = 1
          /\ nChats < MaxReceiptChats
          /\ HandleChatMessage(k, "m1", 2, "hi", TRUE)
    \/ \E k \in DOMAIN tasks : SendAck(k)
    \/ \E k \in DOMAIN tasks : UpdateSessions(k)
    \/ \E k \in DOMAIN tasks : RouteAndDeliver(k)
    \/ \E k \in DOMAIN tasks : ForwardToRemoteGateway(k, FALSE)
    \/ \E k \in DOMAIN tasks : Push(k)
    \/ \E k \in DOMAIN tasks : UpdateDelivered(k)
    \/ \E k \in DOMAIN tasks : NotifyStatusUpdate(k)
    \/ \E k \in DOMAIN tasks, st \in {MsgStatusDelivered, MsgStatusRead} :
          tasks[k].user = 2 /\ HandleReceipt(k, "m1", st)
    \/ \E k \in DOMAIN tasks : NotifySender(k)

SpecNotify == Init /\ [][NextNotify]_vars

\* Task k, a drain or a receipt handler, has made its notifyStatusUpdate
\* call for the message it advanced.
Notifies(k) ==
    /\ tasks[k].pc \in {"notify", "lookup"}
    /\ tasks'[k] # tasks[k]

\* C27: when a drain or a receipt advances a message on one node, the
\* status_update is enqueued on the sender's connection, on whichever node
\* the sender is connected to with room in its queue.
C27_StatusUpdateReachesSender ==
    [][\A k \in DOMAIN tasks : \A n \in Nodes :
          \A i \in GetByMsgID(messages, tasks[k].cur.msg_id) :
              Notifies(k) /\ Accepts(n, messages[i].from_user_id) =>
                  LET c == hub[n][messages[i].from_user_id]
                  IN  clients'[c].Send =
                          Append(clients[c].Send,
                                 StatusUpdateFrame(tasks[k].cur.msg_id,
                                                   tasks[k].st, tasks[k].t))]_vars

\* C28: each successfully persisted message, of the chat_msg pipeline or of
\* a service send, has the on-message handlers invoked exactly once when
\* its sessions are updated; a message that was not persisted has none.
C28_OnMessageOncePerPersisted ==
    [][/\ \A k \in DOMAIN tasks :
             tasks[k].pc = "session" /\ tasks'[k].pc = "route" =>
                 onMessageCalls'[tasks[k].cur.msg_id] = 1
       /\ \A m \in MsgIds :
             ~HasMsgID(messages', m) => onMessageCalls'[m] = 0]_vars

\* One node serving both users: chat_msg frames between them, and service
\* requests from user 1 to user 2 that name no group or a group.
NextRequests ==
    \/ \E u \in Users : Connect(u, "s1")
    \/ \E k \in DOMAIN tasks : RegisterRoute(k)
    \/ \E k \in DOMAIN tasks, to \in Users :
          to # tasks[k].user /\ HandleChatMessage(k, NoId, to, "hi", TRUE)
    \/ \E k \in DOMAIN tasks : SendAck(k)
    \/ \E groupID \in Groups \cup {NoGroup}, dbOk \in BOOLEAN :
          /\ nChats < MaxChats
          /\ SendMessageReq("s1", SendMessageRequest(1, 2, groupID, "hi"), dbOk)
    \/ \E k \in DOMAIN tasks : UpdateSessions(k)
    \/ \E k \in DOMAIN tasks : RouteAndDeliver(k)
    \/ \E k \in DOMAIN tasks : Push(k)
    \/ \E k \in DOMAIN tasks : UpdateDelivered(k)
    \/ \E k \in DOMAIN tasks : NotifyStatusUpdate(k)

SpecRequests == Init /\ [][NextRequests]_vars

\* C29: no persisted message has both a recipient user and a group, for
\* every request the chat_msg pipeline or a service send accepted.
C29_UserOrGroup ==
    \A i \in DOMAIN messages :
        ~(messages[i].to_user_id # 0 /\ messages[i].group_id # NoGroup)

\* One node. A service caller sends messages to user 2, one call after the
\* other, before and while it is connected; user 2 connects, its connection
\* fails, and the drain of the connection runs. Nothing is read from the
\* queue of the connection.
NextBackPressure ==
    \/ clients = <<>> /\ Connect(2, "s1")
    \/ \E k \in DOMAIN tasks : RegisterRoute(k)
    \/ \E k \in DOMAIN tasks : QueryUndelivered(k)
    \/ \E c \in DOMAIN clients : Drop(c)
    \/ \E k \in DOMAIN tasks : ReadError(k)
    \/ \E k \in DOMAIN tasks : Disconnect(k)
    \/ \E k \in DOMAIN tasks : UnregisterRoute(k)
    \/ /\ \A k \in DOMAIN tasks : tasks[k].kind = "send" => tasks[k].pc = "done"
       /\ SendMessage("s1", 1, 2, "hi", TRUE)
    \/ \E k \in DOMAIN tasks : UpdateSessions(k)
    \/ \E k \in DOMAIN tasks : RouteAndDeliver(k)
    \/ \E k \in DOMAIN tasks : Push(k)
    \/ \E k \in DOMAIN tasks : UpdateDelivered(k)
    \/ \E k \in DOMAIN tasks : NotifyStatusUpdate(k)

SpecBackPressure == Init /\ [][NextBackPressure]_vars

\* C30: as soon as a push of a drain is not accepted the drain stops: the
\* refused push writes no row and enqueues nothing, and the drain takes no
\* further step, so the refused message and the later ones of its list are
\* not pushed, not advanced and not notified by it.
C30_DrainStopsAtRefusal ==
    [][\A k \in AllDrains :
          /\ (/\ tasks[k].pc = "push"
              /\ tasks'[k] # tasks[k]
              /\ ~Accepts(tasks[k].node, tasks[k].user))
             => /\ tasks'[k].pc = "stopped"
                /\ tasks'[k].i = tasks[k].i
                /\ messages' = messages
                /\ clients' = clients
          /\ tasks[k].pc = "stopped" => tasks'[k] = tasks[k]]_vars

\* The connection of user 2 failed after its drain had taken two pending
\* messages: the first push was refused, the drain has stopped, and both
\* messages are still sent, not enqueued and not notified.
C30_Witness ==
    \E k \in AllDrains :
        /\ tasks[k].pc = "stopped"
        /\ tasks[k].i = 1
        /\ Len(tasks[k].batch) = DrainLimit
        /\ \A j \in DOMAIN tasks[k].batch :
               \E i \in GetByMsgID(messages, tasks[k].batch[j].msg_id) :
                   messages[i].status = MsgStatusSent
        /\ \A c \in DOMAIN clients : Outbound(c) = <<>>
        /\ Cardinality(AllDrains) = 1

(***************************************************************************)
(* Who may advance a message, and what the sender is told.                 *)
(***************************************************************************)
\* Reader k takes a receipt frame in this step and writes the status.
ReceiptStep(k) ==
    /\ tasks[k].kind = "reader"
    /\ tasks[k].pc = "read"
    /\ tasks'[k].pc = "lookup"

\* Reader k, whose receipt named msgID, ends the receipt handler.
ReceiptEnds(k) ==
    /\ tasks[k].kind = "reader"
    /\ tasks[k].pc = "lookup"
    /\ tasks'[k].pc = "read"

\* The user is the recipient of a stored message with the msg_id.
IsRecipient(userID, msgID) ==
    \E i \in DOMAIN messages :
        messages[i].msg_id = msgID /\ messages[i].to_user_id = userID

\* C37: a delivered or read receipt naming msg_id m changes m's row and
\* pushes a status_update to m's sender only when the user of the
\* connection is m's recipient; for any other user the row is unchanged and
\* nothing is pushed.
C37_OnlyRecipientAdvances ==
    [][\A k \in DOMAIN tasks :
          /\ (ReceiptStep(k) /\ ~IsRecipient(tasks[k].user, tasks'[k].cur.msg_id))
             => messages' = messages
          /\ (ReceiptEnds(k) /\ ~IsRecipient(tasks[k].user, tasks[k].cur.msg_id))
             => clients' = clients]_vars

\* The status_update frames for the msg_id on connection c, in the order
\* they were enqueued.
StatusUpdatesFor(c, msgID) ==
    SelectSeq(Outbound(c),
              LAMBDA f : f.type = "status_update" /\ f.msg_id = msgID)

\* C39: the status values of the status_update frames enqueued to the
\* sender of a message never decrease: the sender is not told delivered(3)
\* after read(4).
C39_StatusUpdatesNeverDecrease ==
    \A c \in DOMAIN clients : \A m \in MsgIds :
        LET s == StatusUpdatesFor(c, m)
        IN  \A i, j \in DOMAIN s : i < j => s[i].status <= s[j].status

(***************************************************************************)
(* The chat frames on the recipient's connection.                          *)
(***************************************************************************)
\* The chat_msg frames enqueued on connection c, in the order of the queue.
ChatFrames(c) == SelectSeq(Outbound(c), LAMBDA f : f.type = "chat_msg")

\* C38: a chat message is enqueued on the recipient's connection at most
\* once: no msg_id is pushed both by the live delivery and by a drain.
C38_EnqueuedAtMostOnce ==
    \A c \in DOMAIN clients :
        LET s == ChatFrames(c)
        IN  \A i, j \in DOMAIN s : s[i].msg_id = s[j].msg_id => i = j

\* C40: the chat_msg frames on the recipient's connection are in
\* non-decreasing server_time order, also when the drain of the connection
\* runs while live deliveries arrive.
C40_RecipientOrder ==
    \A c \in DOMAIN clients :
        LET s == ChatFrames(c)
        IN  \A i, j \in DOMAIN s : i < j => s[i].time <= s[j].time

(***************************************************************************)
(* The Hub of s1 with its broadcast loop: the users connect, reconnect and *)
(* disconnect while the host program submits broadcasts and lists the      *)
(* online users. Nothing is read from the queues.                          *)
(***************************************************************************)
NextBroadcast ==
    \/ \E u \in Users : Connect(u, "s1")
    \/ \E k \in DOMAIN tasks : RegisterRoute(k)
    \/ \E c \in DOMAIN clients : Drop(c)
    \/ \E k \in DOMAIN tasks : ReadError(k)
    \/ \E k \in DOMAIN tasks : Disconnect(k)
    \/ \E k \in DOMAIN tasks : UnregisterRoute(k)
    \/ \E userIDs \in {<<2>>, <<1, 2>>} : SendToUsers("s1", userIDs, Notice)
    \/ RunReceive("s1")
    \/ RunDeliver("s1")
    \/ RunRelease("s1")
    \/ GetOnlineUsers("s1")
    \/ \E k \in DOMAIN tasks : GetOnlineUsersNext(k)

SpecBroadcast == Init /\ [][NextBroadcast]_vars

\* Hub.Run of node n makes one pass of its loop over msg.UserIDs and the
\* process goes on.
DeliverStep(n) ==
    /\ run[n].pc = "loop"
    /\ run'[n].pc = "loop"
    /\ run'[n].i = run[n].i + 1
    /\ crashed' = crashed

\* C31: for a submission (user_ids, payload) the Hub loop appends the
\* payload to the queue of every listed user that is registered and has
\* room, skips a listed user that is not registered, and closes the queue of
\* a listed user whose queue is full and removes that Client from the Hub;
\* the Clients of the other users are not touched.
C31_BroadcastFanOut ==
    [][DeliverStep("s1") =>
          LET userID == run["s1"].UserIDs[run["s1"].i]
              c == hub["s1"][userID]
          IN  /\ \A u \in Users \ {userID} : hub'["s1"][u] = hub["s1"][u]
              /\ \A d \in DOMAIN clients : d # c => clients'[d] = clients[d]
              /\ c = NoClient => hub' = hub /\ clients' = clients
              /\ (c # NoClient /\ ChanAccepts(clients[c])) =>
                    /\ hub' = hub
                    /\ clients' = [clients EXCEPT
                                      ![c].Send = Append(@, run["s1"].Data)]
              /\ (c # NoClient /\ ~ChanAccepts(clients[c])) =>
                    /\ hub'["s1"][userID] = NoClient
                    /\ clients'[c].sendClosed
                    /\ clients'[c].Send = clients[c].Send]_vars

\* A broadcast to users 1 and 2 was worked through while only user 2 was
\* connected: it reached the queue of user 2, and a later one found that
\* queue full, closed it and removed the Client.
C31_Witness ==
    /\ "s1" \notin crashed
    /\ run["s1"].pc = "loop"
    /\ run["s1"].UserIDs = <<1, 2>>
    /\ run["s1"].i = 3
    /\ hub["s1"] = [u \in Users |-> NoClient]
    /\ \E c \in DOMAIN clients :
          /\ clients[c].UserID = 2
          /\ clients[c].sendClosed
          /\ ~clients[c].connClosed
          /\ clients[c].Send = <<Notice, Notice>>

\* C32: the client map of a Hub is changed only under the write lock: no
\* step changes the map of a node while a GetOnlineUsers call holds the
\* read lock and iterates over it.
C32_NoWriteUnderReadLock ==
    [][\A n \in Nodes : hub'[n] # hub[n] => ~Iterating(n)]_vars

NextQueues ==
    \/ Connect(2, "s1")
    \/ \E k \in DOMAIN tasks : RegisterRoute(k)
    \/ \E k \in DOMAIN tasks : ReadError(k)
    \/ \E k \in DOMAIN tasks : Disconnect(k)
    \/ \E k \in DOMAIN tasks : UnregisterRoute(k)
    \/ \E k \in DOMAIN tasks : HandlePing(k)
    \/ \E k \in DOMAIN tasks : SendPong(k)
    \/ /\ \A k \in DOMAIN tasks : tasks[k].kind # "call"
       /\ SendToUserLookup("s1", 2)
    \/ \E k \in DOMAIN tasks : SendToUserSelect(k)
    \/ SendToUsers("s1", <<2>>, Notice)
    \/ RunReceive("s1")
    \/ RunDeliver("s1")
    \/ RunRelease("s1")

SpecQueues == Init /\ [][NextQueues]_vars

\* The reader k is in the send of handlePing and the send cannot proceed:
\* the queue of its Client is open and full.
Suspended(k) ==
    /\ Alive(k)
    /\ tasks[k].kind = "reader"
    /\ tasks[k].pc = "pong"
    /\ ~clients[tasks[k].client].sendClosed
    /\ ~ChanAccepts(clients[tasks[k].client])

\* C33: the pong of a ping is enqueued without blocking: when the queue of
\* the connection is full the reader is not suspended in the enqueue, it
\* goes on to its next frame.
C33_PongNeverBlocks == \A k \in DOMAIN tasks : ~Suspended(k)

\* The step in which task k tries to put a frame on the queue of a Client:
\* the select of a SendToUser call, or the send of handlePing.
EnqueueAttempt(k) ==
    /\ Alive(k)
    /\ \/ tasks[k].kind = "call" /\ tasks[k].pc = "chansend"
       \/ tasks[k].kind = "reader" /\ tasks[k].pc = "pong"
    /\ tasks'[k] # tasks[k] \/ tasks[k].node \in crashed' \ crashed

\* C35: no task tries to enqueue on a closed queue: at the select of every
\* SendToUser call and at the send of every ping reply the queue of the
\* Client in hand is open, however the calls interleave with register
\* eviction, unregister and broadcast eviction.
C35_NoEnqueueOnClosedQueue ==
    [][\A k \in DOMAIN tasks :
          EnqueueAttempt(k) => ~clients[tasks[k].client].sendClosed]_vars

(***************************************************************************)
(* The peer connection pool. A service caller on s1 sends messages from    *)
(* user 1 to user 2, who connects to s2; the peer-discovery workers of the *)
(* nodes tick.                                                             *)
(***************************************************************************)
NextPool ==
    \/ Connect(2, "s2")
    \/ \E k \in DOMAIN tasks : RegisterRoute(k)
    \/ /\ \A k \in DOMAIN tasks : tasks[k].kind = "send" => tasks[k].pc = "done"
       /\ nChats < MaxChats
       /\ SendMessage("s1", 1, 2, "hi", TRUE)
    \/ \E k \in DOMAIN tasks : UpdateSessions(k)
    \/ \E k \in DOMAIN tasks : RouteAndDeliver(k)
    \/ \E k \in DOMAIN tasks, dialOk \in BOOLEAN :
          ForwardToRemoteGateway(k, dialOk)
    \/ \E n \in Nodes : DiscoverPeers(n)

SpecPool == Init /\ [][NextPool]_vars

\* C34: the entries the peer-discovery worker of a node creates are the
\* ones its forwards find: once discovery has stored a client for a peer, a
\* forward to that peer's address finds an entry in the pool and does not
\* dial.
C34_DiscoveredPeersAreFound ==
    \A n \in Nodes, p \in Nodes :
        PoolFinds(n, p) => PoolFinds(n, GRPCAddr(p))

=============================================================================
